---- MODULE Spec2Model ----
(***************************************************************************)
(* A model of the filekv storage engine (FileKVStore): a key-value store   *)
(* kept in a directory tree, with a history of snapshots per key under     *)
(* .history/<key>.h, optional page directories p_<name> and one .meta      *)
(* properties file per snapshot.                                           *)
(*                                                                         *)
(* Strings (keys, paths, file names, versions) are sequences of            *)
(* one-character strings, so that splitting, prefix tests, decimal         *)
(* formatting/parsing and byte-wise comparison are computed as the Go code *)
(* computes them.  Values (file contents) are opaque and only compared     *)
(* for equality.                                                           *)
(*                                                                         *)
(* The root directory is an existing directory with an ordinary name.      *)
(***************************************************************************)
EXTENDS Integers, Sequences, FiniteSets, TLC

\* ------------------------------------------------------------------------
\* Bounds of the model
\* ------------------------------------------------------------------------

\* The number of calls made on the store in one run.
MaxCalls == 3

\* The mocked clock (timex.Now().UnixNano()) starts at InitClock and is
\* advanced one nanosecond at a time up to MaxClock.
MaxClock == 10

\* ------------------------------------------------------------------------
\* Program constants
\* ------------------------------------------------------------------------

metaSuffix == <<".", "m", "e", "t", "a">>
historyDirSuffix == <<".", "h">>
historyDirConst == <<".", "h", "i", "s", "t", "o", "r", "y">>
pagePrefix == <<"p", "_">>
maxHistoryCount == 200

\* time.Time.Unix() is UnixNano() divided by the nanoseconds of one second
NanosPerSecond == 1000000000

\* ------------------------------------------------------------------------
\* Strings
\* ------------------------------------------------------------------------

\* The characters that occur in the model, in ascending byte order.
AsciiOrder ==
    << ".", "/", "0", "1", "2", "3", "4", "5", "6", "7", "8", "9",
       "H", "\\", "_", "a", "b", "c", "d", "e", "h", "i", "m", "o",
       "p", "r", "s", "t", "x", "y" >>

Chars == { AsciiOrder[i] : i \in 1..Len(AsciiOrder) }

\* Byte order of a character (only the order is used).
Ord == [ c \in Chars |-> CHOOSE i \in 1..Len(AsciiOrder) : AsciiOrder[i] = c ]

\* Go's s < t on strings: byte-wise lexicographic comparison.
RECURSIVE StrLessFrom(_, _, _)
StrLessFrom(s, t, i) ==
    IF i > Len(t) THEN FALSE
    ELSE IF i > Len(s) THEN TRUE
    ELSE IF s[i] # t[i] THEN Ord[s[i]] < Ord[t[i]]
    ELSE StrLessFrom(s, t, i + 1)

StrLess(s, t) == StrLessFrom(s, t, 1)

\* strings.HasPrefix / strings.HasSuffix / strings.TrimSuffix
HasPrefix(s, p) == Len(p) <= Len(s) /\ SubSeq(s, 1, Len(p)) = p
HasSuffix(s, x) == Len(x) <= Len(s) /\ SubSeq(s, Len(s) - Len(x) + 1, Len(s)) = x
TrimSuffix(s, x) == IF HasSuffix(s, x) THEN SubSeq(s, 1, Len(s) - Len(x)) ELSE s

\* strings.Contains for a single character
ContainsChar(s, c) == \E i \in 1..Len(s) : s[i] = c

\* strings.Split(s, "/"): the parts between the separators, empty ones kept.
RECURSIVE SplitFrom(_, _, _)
SplitFrom(s, i, cur) ==
    IF i > Len(s) THEN << cur >>
    ELSE IF s[i] = "/" THEN << cur >> \o SplitFrom(s, i + 1, << >>)
    ELSE SplitFrom(s, i + 1, Append(cur, s[i]))

Split(s) == SplitFrom(s, 1, << >>)

\* The parts joined with "/".
RECURSIVE JoinParts(_)
JoinParts(parts) ==
    IF Len(parts) = 0 THEN << >>
    ELSE IF Len(parts) = 1 THEN parts[1]
    ELSE parts[1] \o << "/" >> \o JoinParts(Tail(parts))

NonEmptyParts(s) == SelectSeq(Split(s), LAMBDA p : p # << >>)

\* filepath.Join(root, s) relative to root: filepath.Clean removes the empty
\* parts ("a//b" is "a/b", "a/" is "a").  Parts "." and ".." never reach a
\* path, validateKey rejects them.
Clean(s) == JoinParts(NonEmptyParts(s))

\* strconv.FormatInt(n, 10) and strconv.Itoa(n), for n >= 0
DigitChars == << "0", "1", "2", "3", "4", "5", "6", "7", "8", "9" >>

RECURSIVE FormatInt(_)
FormatInt(n) ==
    IF n < 10 THEN << DigitChars[n + 1] >>
    ELSE Append(FormatInt(n \div 10), DigitChars[(n % 10) + 1])

Itoa(n) == FormatInt(n)

IsDigit(c) == \E d \in 1..10 : DigitChars[d] = c
DigitVal(c) == (CHOOSE d \in 1..10 : DigitChars[d] = c) - 1

RECURSIVE DigitsValue(_, _, _)
DigitsValue(s, i, acc) ==
    IF i > Len(s) THEN acc ELSE DigitsValue(s, i + 1, acc * 10 + DigitVal(s[i]))

\* strconv.ParseInt(s, 10, 64): fails on the empty string and on any
\* character that is not a digit (no name in the model carries a sign).
ParseInt(s) ==
    IF Len(s) = 0 \/ \E i \in 1..Len(s) : ~IsDigit(s[i])
    THEN [ok |-> FALSE, val |-> 0]
    ELSE [ok |-> TRUE, val |-> DigitsValue(s, 1, 0)]

\* ------------------------------------------------------------------------
\* Finite maps
\* ------------------------------------------------------------------------

EmptyMap == [x \in {} |-> 0]

MapPut(f, k, v) == [x \in (DOMAIN f) \cup {k} |-> IF x = k THEN v ELSE f[x]]
MapDel(f, ks) == [x \in (DOMAIN f) \ ks |-> f[x]]

\* The elements of a finite set of strings as a sequence in byte order
\* (os.ReadDir and filepath.WalkDir list a directory sorted by file name).
\* The strings of S agree on their first i - 1 characters: the one that ends
\* there comes first, then the others grouped by their i-th character in
\* byte order, each group sorted from the next character on.
RECURSIVE SortedFrom(_, _)
RECURSIVE SortedGroups(_, _, _, _)
SortedFrom(S, i) ==
    IF S = {} THEN << >>
    ELSE IF Cardinality(S) = 1 THEN << CHOOSE x \in S : TRUE >>
    ELSE LET ended == { x \in S : Len(x) < i }
             longer == S \ ended
             chars == { x[i] : x \in longer }
         IN  SortedFrom(ended, i)
               \o SortedGroups(longer, i, SelectSeq(AsciiOrder, LAMBDA c : c \in chars), 1)

SortedGroups(S, i, chars, k) ==
    IF k > Len(chars) THEN << >>
    ELSE SortedFrom({ x \in S : x[i] = chars[k] }, i + 1)
           \o SortedGroups(S, i, chars, k + 1)

SetToSortedSeq(S) == SortedFrom(S, 1)

\* ------------------------------------------------------------------------
\* Errors
\* ------------------------------------------------------------------------

\* An error is a string: "" is nil; "ENOENT", "ENOTDIR", "EISDIR" are the
\* *PathError values of the os package; "ErrNotExist" is os.ErrNotExist;
\* "wrap(..)" is one of these inside a *wrapErr; the others are made with
\* errors.New.
NoErr == ""

errorWrap(err) ==
    CASE err = "" -> ""
      [] err = "ENOENT" -> "wrap(ENOENT)"
      [] err = "ENOTDIR" -> "wrap(ENOTDIR)"
      [] err = "EISDIR" -> "wrap(EISDIR)"
      [] err = "ErrNotExist" -> "wrap(ErrNotExist)"
      [] OTHER -> "wrap(" \o err \o ")"

\* os.IsNotExist looks inside *PathError only, never inside a *wrapErr.
OsIsNotExist(err) == err \in {"ENOENT", "ErrNotExist"}

\* ------------------------------------------------------------------------
\* Keys and paths
\* ------------------------------------------------------------------------

validateKey(key) ==
    IF key = << >> THEN "InvalidKey"
    ELSE IF HasPrefix(key, << "/" >>) \/ ContainsChar(key, "\\") THEN "InvalidKey"
    ELSE LET parts == Split(key)
         IN  IF \E i \in 1..Len(parts) :
                    /\ parts[i] # << >>
                    /\ \/ HasPrefix(parts[i], << "." >>)
                       \/ HasPrefix(parts[i], pagePrefix)
                       \/ HasSuffix(parts[i], historyDirSuffix)
             THEN "InvalidKey"
             ELSE NoErr

\* The live path of a key, relative to the root directory.
keyToPath(key) == Clean(key)

\* The history directory of a key, relative to <root>/.history.
keyToHistoryPath(key) == Clean(key \o historyDirSuffix)

\* The directories above a path.
Ancestors(path) ==
    LET parts == Split(path)
    IN  { JoinParts(SubSeq(parts, 1, i)) : i \in 1..(Len(parts) - 1) }

Parent(path) ==
    LET parts == Split(path) IN JoinParts(SubSeq(parts, 1, Len(parts) - 1))

BaseName(path) ==
    LET parts == Split(path) IN parts[Len(parts)]

\* ------------------------------------------------------------------------
\* The file system under the root directory
\*
\* A store s is a record:
\*   s.files  live path -> bytes: the regular files of the live tree
\*   s.dirs   the directories of the live tree (the root left out)
\*   s.hist   history directory path -> that directory, a record
\*              files  <<page, name>> -> bytes: the snapshot files; page is
\*                     << >> for the default location
\*              metas  <<page, name>> -> lines: the file <name>.meta
\*              pages  the names of the page directories
\* ------------------------------------------------------------------------

EmptyHistory == [files |-> EmptyMap, metas |-> EmptyMap, pages |-> {}]

EmptyStore == [files |-> EmptyMap, dirs |-> {}, hist |-> EmptyMap]

DefaultLoc == << >>

\* A variant of StatLive that knows regular files only: a directory at the
\* path, or a regular file where a directory of the path should be, is not
\* seen.
StatLiveFilesOnly(s, path) ==
    IF path \in DOMAIN s.files THEN "file" ELSE "ENOENT"

\* os.Stat / os.ReadFile on a live path
StatLive(s, path) ==
    IF path \in DOMAIN s.files THEN "file"
    ELSE IF path \in s.dirs THEN "dir"
    ELSE IF \E a \in Ancestors(path) : a \in DOMAIN s.files THEN "ENOTDIR"
    ELSE "ENOENT"

\* The history directory at hp, empty when it does not exist.
HistoryAt(s, hp) == IF hp \in DOMAIN s.hist THEN s.hist[hp] ELSE EmptyHistory

\* os.Stat / os.ReadFile of historyDir/rel, where rel may name a file in
\* a page ("p_9/9"); the names tried never end with .meta.
StatHistory(s, hp, rel) ==
    LET parts == NonEmptyParts(rel)
        h == HistoryAt(s, hp)
    IN  IF hp \notin DOMAIN s.hist THEN [st |-> "ENOENT", loc |-> << >>]
        ELSE IF Len(parts) = 0 THEN [st |-> "dir", loc |-> << >>]
        ELSE IF Len(parts) = 1
             THEN IF << DefaultLoc, parts[1] >> \in DOMAIN h.files
                  THEN [st |-> "file", loc |-> << DefaultLoc, parts[1] >>]
                  ELSE IF parts[1] \in h.pages THEN [st |-> "dir", loc |-> << >>]
                  ELSE [st |-> "ENOENT", loc |-> << >>]
        ELSE IF << DefaultLoc, parts[1] >> \in DOMAIN h.files
             THEN [st |-> "ENOTDIR", loc |-> << >>]
        ELSE IF Len(parts) = 2 /\ parts[1] \in h.pages
                /\ << parts[1], parts[2] >> \in DOMAIN h.files
             THEN [st |-> "file", loc |-> << parts[1], parts[2] >>]
        ELSE [st |-> "ENOENT", loc |-> << >>]

\* os.MkdirAll(filepath.Dir(path)) in the live tree
MkdirAllLive(s, path) == [s EXCEPT !.dirs = s.dirs \cup Ancestors(path)]

\* A variant of WriteLive that creates the file but never truncates one
\* that is there (an exclusive create).
WriteLiveExclusive(s, path, value) ==
    IF path \in DOMAIN s.files THEN s
    ELSE [s EXCEPT !.files = MapPut(s.files, path, value)]

\* os.WriteFile on a live path whose directory exists
WriteLive(s, path, value) == [s EXCEPT !.files = MapPut(s.files, path, value)]

\* os.MkdirAll(historyDir)
MkdirAllHistory(s, hp) ==
    IF hp \in DOMAIN s.hist THEN s
    ELSE [s EXCEPT !.hist = MapPut(s.hist, hp, EmptyHistory)]

\* os.WriteFile of a snapshot file; the directory exists
WriteSnapshot(s, hp, loc, value) ==
    [s EXCEPT !.hist[hp].files = MapPut(s.hist[hp].files, loc, value)]

\* os.Remove of each of the snapshot files / meta files at locs (absence is
\* tolerated)
RemoveSnapshot(s, hp, locs) ==
    [s EXCEPT !.hist[hp].files = MapDel(s.hist[hp].files, locs)]

RemoveMeta(s, hp, locs) ==
    [s EXCEPT !.hist[hp].metas = MapDel(s.hist[hp].metas, locs)]

\* The result of an operation: the store it leaves, what it returns and
\* its error.
Result(s, ret, err) == [s |-> s, ret |-> ret, err |-> err]

\* ------------------------------------------------------------------------
\* Properties files
\* ------------------------------------------------------------------------

\* The content of a properties file: the set of its lines, a line "k=v"
\* being the pair <<k, v>> (the order of the lines is the iteration order of
\* a Go map and is not kept).
propertiesLines(props) == { << k, props[k] >> : k \in DOMAIN props }

\* readProperties: a line whose "=" is its first character is dropped
\* (idx > 0); a missing file gives nil, which reads as the empty map.
readProperties(metas, loc) ==
    IF loc \notin DOMAIN metas THEN EmptyMap
    ELSE LET lines == metas[loc]
             ks == { l[1] : l \in lines } \ {""}
         IN  [k \in ks |-> (CHOOSE l \in lines : l[1] = k)[2]]

\* A variant of writeProperties that adds the lines to those the file has.
writePropertiesAppending(s, hp, loc, props) ==
    LET s1 == MkdirAllHistory(s, hp)
        old == IF loc \in DOMAIN s1.hist[hp].metas THEN s1.hist[hp].metas[loc] ELSE {}
    IN  [s1 EXCEPT !.hist[hp].metas =
                       MapPut(s1.hist[hp].metas, loc, old \cup propertiesLines(props))]

\* writeProperties into a history directory, which it creates when missing.
writeProperties(s, hp, loc, props) ==
    LET s1 == MkdirAllHistory(s, hp)
    IN  [s1 EXCEPT !.hist[hp].metas = MapPut(s1.hist[hp].metas, loc, propertiesLines(props))]

\* ------------------------------------------------------------------------
\* History traversal
\* ------------------------------------------------------------------------

\* The snapshot files of one directory of a history (the default location
\* or a page) in os.ReadDir order, as the callback of traverseDir gets them.
DirEntries(h, page) ==
    LET names == SetToSortedSeq({ loc[2] : loc \in { l \in DOMAIN h.files : l[1] = page } })
    IN  [i \in 1..Len(names) |->
            [Name    |-> IF page = DefaultLoc THEN names[i]
                         ELSE page \o << "/" >> \o names[i],
             Version |-> names[i],
             hasMeta |-> << page, names[i] >> \in DOMAIN h.metas,
             loc     |-> << page, names[i] >>]]

RECURSIVE PagesEntries(_, _, _)
PagesEntries(h, pages, i) ==
    IF i > Len(pages) THEN << >>
    ELSE DirEntries(h, pages[i]) \o PagesEntries(h, pages, i + 1)

\* traverseDir(historyDir, "", true, ..): the pages are visited while the
\* entries are classified, the default location after that.
traverseDir(s, hp) ==
    LET h == HistoryAt(s, hp)
    IN  PagesEntries(h, SetToSortedSeq(h.pages), 1) \o DirEntries(h, DefaultLoc)

foreachHistories(s, hp) == traverseDir(s, hp)

\* sort.Slice(versions, Version < Version): byte-wise comparison of the file
\* names.  Entries of the same Version (a name that is in a page and in the
\* default location) keep the order of the traversal, as they do in the
\* insertion sort that sort.Slice is on at most 12 elements.  The entries
\* of seq agree on the first i - 1 characters of Version: those that end
\* there come first, then the others grouped by the i-th character.
RECURSIVE SortVersionsFrom(_, _)
RECURSIVE SortVersionGroups(_, _, _, _)
SortVersionsFrom(seq, i) ==
    IF Len(seq) <= 1 THEN seq
    ELSE LET ended == SelectSeq(seq, LAMBDA e : Len(e.Version) < i)
             longer == SelectSeq(seq, LAMBDA e : Len(e.Version) >= i)
             chars == { longer[j].Version[i] : j \in 1..Len(longer) }
         IN  ended \o SortVersionGroups(longer, i, SelectSeq(AsciiOrder, LAMBDA c : c \in chars), 1)

SortVersionGroups(seq, i, chars, k) ==
    IF k > Len(chars) THEN << >>
    ELSE SortVersionsFrom(SelectSeq(seq, LAMBDA e : e.Version[i] = chars[k]), i + 1)
           \o SortVersionGroups(seq, i, chars, k + 1)

SortVersions(seq) == SortVersionsFrom(seq, 1)

readHistories(s, hp) == SortVersions(foreachHistories(s, hp))

\* ------------------------------------------------------------------------
\* Read operations
\* ------------------------------------------------------------------------

Get(s, key) ==
    IF validateKey(key) # NoErr THEN Result(s, "", validateKey(key))
    ELSE LET st == StatLive(s, keyToPath(key))
         IN  IF st = "file" THEN Result(s, s.files[keyToPath(key)], NoErr)
             ELSE IF st = "dir" THEN Result(s, "", errorWrap("EISDIR"))
             ELSE Result(s, "", errorWrap(st))

IsHead(version) == version = << "h", "e", "a", "d" >> \/ version = << "H", "E", "A", "D" >>

\* searchVersionInSubDirs: the first page, in name order, in which
\* <page>/<version> is there; os.ErrNotExist when no page has it.
searchVersionInSubDirs(s, hp, version) ==
    IF hp \notin DOMAIN s.hist THEN [loc |-> << >>, err |-> errorWrap("ENOENT")]
    ELSE LET pages == SetToSortedSeq(s.hist[hp].pages)
             hits == { i \in 1..Len(pages) :
                         StatHistory(s, hp, pages[i] \o << "/" >> \o version).st = "file" }
         IN  IF hits = {} THEN [loc |-> << >>, err |-> "ErrNotExist"]
             ELSE LET first == CHOOSE i \in hits : \A j \in hits : i <= j
                  IN  [loc |-> StatHistory(s, hp, pages[first] \o << "/" >> \o version).loc,
                       err |-> NoErr]

GetByVersion(s, key, version) ==
    IF IsHead(version) THEN Get(s, key)
    ELSE IF validateKey(key) # NoErr THEN Result(s, "", validateKey(key))
    ELSE LET hp == keyToHistoryPath(key)
             st == StatHistory(s, hp, version)
         IN  IF st.st = "file" THEN Result(s, s.hist[hp].files[st.loc], NoErr)
             ELSE IF st.st = "dir" THEN Result(s, "", errorWrap("EISDIR"))
             ELSE IF st.st = "ENOTDIR" THEN Result(s, "", errorWrap("ENOTDIR"))
             ELSE LET found == searchVersionInSubDirs(s, hp, version)
                  IN  IF found.err = NoErr
                      THEN Result(s, s.hist[hp].files[found.loc], NoErr)
                      ELSE IF OsIsNotExist(found.err)
                           THEN Result(s, "", "VersionNotFound")
                           ELSE Result(s, "", errorWrap(found.err))

\* A variant of Exists without the st.IsDir() test.
ExistsAnyEntry(s, key) ==
    IF validateKey(key) # NoErr THEN Result(s, FALSE, validateKey(key))
    ELSE LET st == StatLive(s, keyToPath(key))
         IN  IF st = "ENOENT" THEN Result(s, FALSE, NoErr)
             ELSE IF st = "ENOTDIR" THEN Result(s, FALSE, errorWrap("ENOTDIR"))
             ELSE Result(s, TRUE, NoErr)

Exists(s, key) ==
    IF validateKey(key) # NoErr THEN Result(s, FALSE, validateKey(key))
    ELSE LET st == StatLive(s, keyToPath(key))
         IN  IF st = "ENOENT" THEN Result(s, FALSE, NoErr)
             ELSE IF st = "ENOTDIR" THEN Result(s, FALSE, errorWrap("ENOTDIR"))
             ELSE IF st = "dir" THEN Result(s, FALSE, NoErr)
             ELSE Result(s, TRUE, NoErr)

\* The names in a live directory (<< >> is the root), in byte order.
LiveChildren(s, dir) ==
    SetToSortedSeq({ BaseName(p) : p \in { q \in (DOMAIN s.files) \cup s.dirs : Parent(q) = dir } })

\* A variant of pruneDir without the length test: it leaves out every
\* directory that does not begin with the prefix.
pruneDirNotPrefixed(relPath, prefix) == ~HasPrefix(relPath, prefix)

\* ListKeys leaves a directory out when it is longer than the prefix and
\* does not begin with it.
pruneDir(relPath, prefix) == Len(relPath) > Len(prefix) /\ ~HasPrefix(relPath, prefix)

\* filepath.WalkDir below dir with the callback of ListKeys.  A SkipDir
\* returned for a directory skips that directory; returned for a file it
\* skips the rest of the directory the file is in.
RECURSIVE walkEntries(_, _, _, _, _)
walkEntries(s, dir, names, i, prefix) ==
    IF i > Len(names) THEN << >>
    ELSE LET name == names[i]
             relPath == IF dir = << >> THEN name ELSE dir \o << "/" >> \o name
             skip == \/ name = historyDirConst
                     \/ HasPrefix(name, pagePrefix)
                     \/ HasPrefix(name, << "." >>)
                     \/ HasSuffix(name, historyDirSuffix)
         IN  IF relPath \in s.dirs
             THEN (IF skip \/ pruneDir(relPath, prefix)
                   THEN << >>
                   ELSE walkEntries(s, relPath, LiveChildren(s, relPath), 1, prefix))
                  \o walkEntries(s, dir, names, i + 1, prefix)
             ELSE IF skip THEN << >>
             ELSE (IF HasPrefix(relPath, prefix) THEN << relPath >> ELSE << >>)
                  \o walkEntries(s, dir, names, i + 1, prefix)

ListKeys(s, prefix) ==
    Result(s, walkEntries(s, << >>, LiveChildren(s, << >>), 1, prefix), NoErr)

GetHistories(s, key) ==
    IF validateKey(key) # NoErr THEN Result(s, << >>, validateKey(key))
    ELSE LET hp == keyToHistoryPath(key)
             versions == readHistories(s, hp)
         IN  Result(s,
                    [i \in 1..Len(versions) |->
                        [Name    |-> versions[i].Name,
                         Version |-> versions[i].Version,
                         hasMeta |-> versions[i].hasMeta,
                         Meta    |-> IF versions[i].hasMeta
                                     THEN readProperties(s.hist[hp].metas, versions[i].loc)
                                     ELSE EmptyMap]],
                    NoErr)

\* The scan of GetLastVersion: the first entry, in traversal order, with
\* the greatest timestamp above maxTime = 0; names that do not parse are
\* passed over.  The scan of the entries lo..hi that starts from best is the
\* scan of the first half from best, and then what the scan of the second
\* half from best finds when its timestamp is greater still.
RECURSIVE lastVersionScan(_, _, _, _)
lastVersionScan(entries, lo, hi, best) ==
    IF lo > hi THEN best
    ELSE IF lo = hi
         THEN LET t == ParseInt(entries[lo].Version)
              IN  IF t.ok /\ t.val > best.maxTime
                  THEN [maxTime |-> t.val, entry |-> entries[lo]]
                  ELSE best
    ELSE LET mid == (lo + hi) \div 2
             left == lastVersionScan(entries, lo, mid, best)
             right == lastVersionScan(entries, mid + 1, hi, best)
         IN  IF right.maxTime > left.maxTime THEN right ELSE left

NoVersion == [Name |-> << >>, Version |-> << >>, hasMeta |-> FALSE, Meta |-> EmptyMap]

GetLastVersion(s, key) ==
    IF validateKey(key) # NoErr THEN Result(s, NoVersion, validateKey(key))
    ELSE LET hp == keyToHistoryPath(key)
             entries == foreachHistories(s, hp)
             best == lastVersionScan(entries, 1, Len(entries),
                                     [maxTime |-> 0, entry |-> NoVersion])
         IN  IF best.maxTime = 0 THEN Result(s, NoVersion, errorWrap("ErrNotExist"))
             ELSE Result(s,
                         [Name    |-> best.entry.Name,
                          Version |-> FormatInt(best.maxTime),
                          hasMeta |-> FALSE,
                          Meta    |-> IF best.entry.hasMeta
                                      THEN readProperties(s.hist[hp].metas, best.entry.loc)
                                      ELSE EmptyMap],
                         NoErr)

\* The Version that readHistories made of an entry: no Meta is read.
VersionOf(e) ==
    [Name |-> e.Name, Version |-> e.Version, hasMeta |-> e.hasMeta, Meta |-> EmptyMap]

\* The loop `for i, v := range histories`: the first index whose Version
\* is the revision, 0 (the -1 of the code) when there is none.
targetIndexOf(histories, revision) ==
    LET found == { i \in 1..Len(histories) : histories[i].Version = revision }
    IN  IF found = {} THEN 0
        ELSE CHOOSE i \in found : \A j \in found : i <= j

GetPrevVersion(s, key, revision) ==
    IF validateKey(key) # NoErr THEN Result(s, NoVersion, validateKey(key))
    ELSE LET histories == readHistories(s, keyToHistoryPath(key))
             n == Len(histories)
             targetIndex == IF IsHead(revision) THEN n
                            ELSE targetIndexOf(histories, revision)
         IN  IF n = 0 THEN Result(s, NoVersion, errorWrap("ErrNotExist"))
             ELSE IF IsHead(revision) /\ n < 2
                  THEN Result(s, NoVersion, errorWrap("ErrNotExist"))
             ELSE IF targetIndex = 0 THEN Result(s, NoVersion, errorWrap("ErrNotExist"))
             ELSE IF targetIndex = 1 THEN Result(s, NoVersion, errorWrap("ErrNotExist"))
             ELSE Result(s, VersionOf(histories[targetIndex - 1]), NoErr)

\* A variant of GetNextVersion that validates the key before it looks at
\* the revision.
GetNextVersionKeyFirst(s, key, revision) ==
    IF validateKey(key) # NoErr THEN Result(s, NoVersion, validateKey(key))
    ELSE IF IsHead(revision) THEN Result(s, NoVersion, errorWrap("ErrNotExist"))
    ELSE LET histories == readHistories(s, keyToHistoryPath(key))
             n == Len(histories)
             targetIndex == targetIndexOf(histories, revision)
         IN  IF n = 0 THEN Result(s, NoVersion, errorWrap("ErrNotExist"))
             ELSE IF targetIndex = 0 THEN Result(s, NoVersion, errorWrap("ErrNotExist"))
             ELSE IF targetIndex = n THEN Result(s, NoVersion, errorWrap("ErrNotExist"))
             ELSE Result(s, VersionOf(histories[targetIndex + 1]), NoErr)

\* GetNextVersion answers head before it validates the key.
GetNextVersion(s, key, revision) ==
    IF IsHead(revision) THEN Result(s, NoVersion, errorWrap("ErrNotExist"))
    ELSE GetNextVersionKeyFirst(s, key, revision)

\* ------------------------------------------------------------------------
\* Set
\* ------------------------------------------------------------------------

\* A variant of shouldCreateHistory that does not compare the bytes.
shouldCreateHistoryAlways(s, dataFile, value) == TRUE

\* shouldCreateHistory: the live file is missing or holds other bytes.
shouldCreateHistory(s, dataFile, value) ==
    StatLive(s, dataFile) = "ENOENT" \/ s.files[dataFile] # value

\* A variant of uniqueHistoryFile without the loop: the name is the
\* timestamp, whatever is there.
historyFileUnchecked(s, hp, timestampStr, counter) == timestampStr

\* The loop that makes the snapshot file name unique: <ts>, <ts>_1, <ts>_2,
\* .. until os.Stat finds nothing of that name in the history directory.
RECURSIVE uniqueHistoryFile(_, _, _, _)
uniqueHistoryFile(s, hp, timestampStr, counter) ==
    LET name == IF counter = 0 THEN timestampStr
                ELSE timestampStr \o << "_" >> \o Itoa(counter)
    IN  IF StatHistory(s, hp, name).st = "ENOENT" THEN name
        ELSE uniqueHistoryFile(s, hp, timestampStr, counter + 1)

\* What SetWithTimestamp returns after it has written the snapshot file
\* named historyFile.
setReturnValue(timestampStr, historyFile) == timestampStr

SetWithTimestamp(s, key, value, timestamp) ==
    IF validateKey(key) # NoErr THEN Result(s, << >>, validateKey(key))
    ELSE LET dataFile == keyToPath(key)
             st == StatLive(s, dataFile)
         IN  IF st = "dir" THEN Result(s, << >>, errorWrap("EISDIR"))
             ELSE IF st = "ENOTDIR" THEN Result(s, << >>, errorWrap("ENOTDIR"))
             ELSE LET create == shouldCreateHistory(s, dataFile, value)
                      timestampStr == FormatInt(timestamp)
                      hp == keyToHistoryPath(key)
                      s1 == WriteLive(MkdirAllLive(s, dataFile), dataFile, value)
                  IN  IF ~create THEN Result(s1, << >>, NoErr)
                      ELSE LET s2 == MkdirAllHistory(s1, hp)
                               historyFile == uniqueHistoryFile(s2, hp, timestampStr, 0)
                               s3 == WriteSnapshot(s2, hp, << DefaultLoc, historyFile >>, value)
                           IN  Result(s3, setReturnValue(timestampStr, historyFile), NoErr)

\* SetWithTimestamp when the file system fails after the live file was
\* written: at os.MkdirAll of the history directory, or at os.WriteFile of
\* the snapshot before the file is there.  A call that does not get that
\* far (invalid key, a directory in the way, unchanged bytes) goes as usual.
SetWithTimestampFailing(s, key, value, timestamp, failsAt) ==
    IF validateKey(key) # NoErr THEN Result(s, << >>, validateKey(key))
    ELSE LET dataFile == keyToPath(key)
             st == StatLive(s, dataFile)
         IN  IF st = "dir" THEN Result(s, << >>, errorWrap("EISDIR"))
             ELSE IF st = "ENOTDIR" THEN Result(s, << >>, errorWrap("ENOTDIR"))
             ELSE LET create == shouldCreateHistory(s, dataFile, value)
                      hp == keyToHistoryPath(key)
                      s1 == WriteLive(MkdirAllLive(s, dataFile), dataFile, value)
                  IN  IF ~create THEN Result(s1, << >>, NoErr)
                      ELSE IF failsAt = "MkdirAll" THEN Result(s1, << >>, errorWrap("EIO"))
                      ELSE Result(MkdirAllHistory(s1, hp), << >>, errorWrap("EIO"))

\* Set reads the clock.
Set(s, key, value, now) == SetWithTimestamp(s, key, value, now)

\* ensureHistoryRecordExists: the live value written as the snapshot
\* <timestamp> in the default location, over a file of that name if any.
ensureHistoryRecordExists(s, key, hp, timestamp) ==
    LET cur == Get(s, key)
        timestampStr == FormatInt(timestamp)
    IN  IF cur.err # NoErr THEN Result(s, << >>, cur.err)
        ELSE Result(WriteSnapshot(MkdirAllHistory(s, hp), hp,
                                  << DefaultLoc, timestampStr >>, cur.ret),
                    timestampStr, NoErr)

\* ------------------------------------------------------------------------
\* Meta
\* ------------------------------------------------------------------------

\* The place of <name>.meta for a version name as GetLastVersion or the
\* caller gives it ("9" or "p_9/9"), inside the history directory.
MetaLoc(name) ==
    LET parts == NonEmptyParts(name)
    IN  IF Len(parts) = 2 THEN << parts[1], parts[2] >>
        ELSE << DefaultLoc, name >>

\* The snapshot a version other than head names: the default location
\* first, then the pages.
resolveVersionFile(s, key, hp, version) ==
    LET st == StatHistory(s, hp, version)
    IN  IF st.st = "file" THEN [loc |-> st.loc, err |-> NoErr]
        ELSE IF st.st = "dir" THEN [loc |-> << DefaultLoc, version >>, err |-> NoErr]
        ELSE IF st.st = "ENOTDIR" THEN [loc |-> << >>, err |-> errorWrap("ENOTDIR")]
        ELSE LET found == searchVersionInSubDirs(s, hp, version)
             IN  IF found.err = NoErr THEN found
                 ELSE IF OsIsNotExist(found.err)
                      THEN [loc |-> << >>, err |-> errorWrap("ErrNotExist")]
                      ELSE [loc |-> << >>, err |-> errorWrap(found.err)]

SetMeta(s, key, version, meta, now) ==
    IF validateKey(key) # NoErr THEN Result(s, << >>, validateKey(key))
    ELSE LET hp == keyToHistoryPath(key)
         IN  IF IsHead(version)
             THEN LET last == GetLastVersion(s, key)
                  IN  IF last.err # NoErr
                      THEN IF ~OsIsNotExist(last.err) THEN Result(s, << >>, last.err)
                           ELSE LET made == ensureHistoryRecordExists(s, key, hp, now)
                                IN  IF made.err # NoErr THEN Result(s, << >>, made.err)
                                    ELSE Result(writeProperties(made.s, hp, MetaLoc(made.ret), meta),
                                                << >>, NoErr)
                      ELSE Result(writeProperties(s, hp, MetaLoc(last.ret.Name), meta),
                                  << >>, NoErr)
             ELSE LET target == resolveVersionFile(s, key, hp, version)
                  IN  IF target.err # NoErr THEN Result(s, << >>, target.err)
                      ELSE Result(writeProperties(s, hp, target.loc, meta), << >>, NoErr)

\* A variant of mergeMeta in which an old entry wins over a new one.
mergeMetaKeepingOld(existingMeta, meta) ==
    [k \in (DOMAIN existingMeta) \cup (DOMAIN meta) |->
        IF k \in DOMAIN existingMeta THEN existingMeta[k] ELSE meta[k]]

\* The merge of UpdateMeta: the new entries over the old ones.
mergeMeta(existingMeta, meta) ==
    IF DOMAIN existingMeta = {} THEN meta
    ELSE [k \in (DOMAIN existingMeta) \cup (DOMAIN meta) |->
            IF k \in DOMAIN meta THEN meta[k] ELSE existingMeta[k]]

updateMetaAt(s, hp, loc, meta) ==
    writeProperties(s, hp, loc, mergeMeta(readProperties(HistoryAt(s, hp).metas, loc), meta))

UpdateMeta(s, key, version, meta, now) ==
    IF validateKey(key) # NoErr THEN Result(s, << >>, validateKey(key))
    ELSE LET hp == keyToHistoryPath(key)
         IN  IF IsHead(version)
             THEN LET last == GetLastVersion(s, key)
                  IN  IF last.err # NoErr
                      THEN LET made == ensureHistoryRecordExists(s, key, hp, now)
                           IN  IF made.err # NoErr THEN Result(s, << >>, made.err)
                               ELSE Result(updateMetaAt(made.s, hp, MetaLoc(made.ret), meta),
                                           << >>, NoErr)
                      ELSE Result(updateMetaAt(s, hp, MetaLoc(last.ret.Name), meta),
                                  << >>, NoErr)
             ELSE LET target == resolveVersionFile(s, key, hp, version)
                  IN  IF target.err # NoErr THEN Result(s, << >>, target.err)
                      ELSE Result(updateMetaAt(s, hp, target.loc, meta), << >>, NoErr)

\* ------------------------------------------------------------------------
\* Delete
\* ------------------------------------------------------------------------

\* os.RemoveAll(historyDir)
RemoveAllHistory(s, hp) == [s EXCEPT !.hist = MapDel(s.hist, {hp})]

\* os.Remove(keyPath)
RemoveLive(s, path) == [s EXCEPT !.files = MapDel(s.files, {path})]

\* A variant of Delete without the st.IsDir() test: os.RemoveAll of the
\* history runs, then os.Remove of the directory fails.
DeleteWithoutDirCheck(s, key, removeHistories) ==
    IF validateKey(key) # NoErr THEN Result(s, << >>, validateKey(key))
    ELSE LET keyPath == keyToPath(key)
             st == StatLive(s, keyPath)
             s1 == IF removeHistories
                   THEN RemoveAllHistory(s, keyToHistoryPath(key))
                   ELSE s
         IN  IF st = "ENOENT" THEN Result(s, << >>, NoErr)
             ELSE IF st = "ENOTDIR" THEN Result(s, << >>, errorWrap("ENOTDIR"))
             ELSE IF st = "dir" THEN Result(s1, << >>, errorWrap("ENOTEMPTY"))
             ELSE Result(RemoveLive(s1, keyPath), << >>, NoErr)

\* A variant of Delete that takes the history away whatever removeHistories
\* says.
DeleteWithHistory(s, key, removeHistories) ==
    IF validateKey(key) # NoErr THEN Result(s, << >>, validateKey(key))
    ELSE LET keyPath == keyToPath(key)
             st == StatLive(s, keyPath)
         IN  IF st = "ENOENT" THEN Result(s, << >>, NoErr)
             ELSE IF st = "ENOTDIR" THEN Result(s, << >>, errorWrap("ENOTDIR"))
             ELSE IF st = "dir" THEN Result(s, << >>, "HasChildren")
             ELSE Result(RemoveLive(RemoveAllHistory(s, keyToHistoryPath(key)), keyPath),
                         << >>, NoErr)

Delete(s, key, removeHistories) ==
    IF validateKey(key) # NoErr THEN Result(s, << >>, validateKey(key))
    ELSE LET keyPath == keyToPath(key)
             st == StatLive(s, keyPath)
         IN  IF st = "ENOENT" THEN Result(s, << >>, NoErr)
             ELSE IF st = "ENOTDIR" THEN Result(s, << >>, errorWrap("ENOTDIR"))
             ELSE IF st = "dir" THEN Result(s, << >>, "HasChildren")
             ELSE LET s1 == IF removeHistories
                            THEN RemoveAllHistory(s, keyToHistoryPath(key))
                            ELSE s
                  IN  Result(RemoveLive(s1, keyPath), << >>, NoErr)

\* ------------------------------------------------------------------------
\* Cleanup
\* ------------------------------------------------------------------------

\* A variant of removeEntries that removes the snapshot files and leaves
\* the meta files.
removeEntriesKeepingMeta(s, hp, entries) ==
    IF Len(entries) = 0 THEN s
    ELSE RemoveSnapshot(s, hp, { entries[i].loc : i \in 1..Len(entries) })

\* os.Remove of the snapshot file of every entry of a traversal and, for an
\* entry the traversal saw a meta file of, of its meta file.
removeEntries(s, hp, entries) ==
    IF Len(entries) = 0 THEN s
    ELSE LET gone == { entries[i].loc : i \in 1..Len(entries) }
             goneMetas == { entries[i].loc : i \in { j \in 1..Len(entries) : entries[j].hasMeta } }
         IN  RemoveMeta(RemoveSnapshot(s, hp, gone), hp, goneMetas)

\* cutoffTime := timex.Now().Add(-maxAge).Unix(): whole seconds
cutoffTime(now, maxAge) == (now - maxAge) \div NanosPerSecond

\* The callback of CleanupHistoriesByTime decides by the parsed file name.
isExpired(version, cutoff) ==
    LET t == ParseInt(version) IN t.ok /\ t.val < cutoff

CleanupHistoriesByTime(s, key, maxAge, now) ==
    IF validateKey(key) # NoErr THEN Result(s, << >>, validateKey(key))
    ELSE LET hp == keyToHistoryPath(key)
             cutoff == cutoffTime(now, maxAge)
             expired == SelectSeq(foreachHistories(s, hp),
                                  LAMBDA e : isExpired(e.Version, cutoff))
         IN  Result(removeEntries(s, hp, expired), << >>, NoErr)

\* toRemove := allHistories[:len(allHistories)-maxCount]
toRemove(allHistories, maxCount) ==
    IF Len(allHistories) <= maxCount THEN << >>
    ELSE SubSeq(allHistories, 1, Len(allHistories) - maxCount)

CleanupHistoriesByCount(s, key, maxCount) ==
    IF validateKey(key) # NoErr THEN Result(s, << >>, validateKey(key))
    ELSE LET hp == keyToHistoryPath(key)
             allHistories == SortVersions(foreachHistories(s, hp))
         IN  Result(removeEntries(s, hp, toRemove(allHistories, maxCount)), << >>, NoErr)

\* ------------------------------------------------------------------------
\* Fsck
\* ------------------------------------------------------------------------

\* filepath.WalkDir order of paths: part by part, a directory before what
\* is in it.
RECURSIVE PartsLess(_, _, _)
PartsLess(p, q, i) ==
    IF i > Len(q) THEN FALSE
    ELSE IF i > Len(p) THEN TRUE
    ELSE IF p[i] # q[i] THEN StrLess(p[i], q[i])
    ELSE PartsLess(p, q, i + 1)

RECURSIVE WalkOrder(_)
WalkOrder(paths) ==
    IF paths = {} THEN << >>
    ELSE LET m == CHOOSE x \in paths :
                    \A y \in paths \ {x} : PartsLess(Split(x), Split(y), 1)
         IN  << m >> \o WalkOrder(paths \ {m})

\* The callback of removeOrphanedHistories on the history directories; a
\* directory whose name starts with "." is passed over, and the walk stops
\* at the first error of Exists.
RECURSIVE removeOrphansFrom(_, _, _)
removeOrphansFrom(s, hps, i) ==
    IF i > Len(hps) THEN Result(s, << >>, NoErr)
    ELSE LET relPath == hps[i]
             name == BaseName(relPath)
         IN  IF HasPrefix(name, << "." >>) \/ ~HasSuffix(name, historyDirSuffix)
             THEN removeOrphansFrom(s, hps, i + 1)
             ELSE LET key == TrimSuffix(relPath, historyDirSuffix)
                      exists == Exists(s, key)
                  IN  IF exists.err # NoErr THEN Result(s, << >>, exists.err)
                      ELSE IF ~exists.ret
                           THEN removeOrphansFrom(RemoveAllHistory(s, relPath), hps, i + 1)
                           ELSE removeOrphansFrom(s, hps, i + 1)

removeOrphanedHistories(s) == removeOrphansFrom(s, WalkOrder(DOMAIN s.hist), 1)

\* A variant of moveToPage that renames the snapshot files only and leaves
\* their meta files where they are.
moveToPageWithoutMeta(h, pageHistories) ==
    LET pageDirName == pagePrefix \o pageHistories[1]
        names == { pageHistories[i] : i \in 1..Len(pageHistories) }
        movedFiles == { << DefaultLoc, n >> : n \in names }
    IN  [files |-> [loc \in ((DOMAIN h.files) \ movedFiles)
                              \cup { << pageDirName, n >> : n \in names } |->
                        IF loc[1] = pageDirName /\ loc[2] \in names
                        THEN h.files[<< DefaultLoc, loc[2] >>]
                        ELSE h.files[loc]],
         metas |-> h.metas,
         pages |-> h.pages \cup {pageDirName}]

\* One page of organizeHistoriesIfNeeded: the directory p_<first name> is
\* made and the files of the page are renamed into it, each with its meta
\* file when the default location had one; a rename replaces a file of the
\* same name that is already in the page.
moveToPage(h, pageHistories) ==
    LET pageDirName == pagePrefix \o pageHistories[1]
        names == { pageHistories[i] : i \in 1..Len(pageHistories) }
        movedFiles == { << DefaultLoc, n >> : n \in names }
        movedMetas == { << DefaultLoc, n >> : n \in names } \cap DOMAIN h.metas
    IN  [files |-> [loc \in ((DOMAIN h.files) \ movedFiles)
                              \cup { << pageDirName, n >> : n \in names } |->
                        IF loc[1] = pageDirName /\ loc[2] \in names
                        THEN h.files[<< DefaultLoc, loc[2] >>]
                        ELSE h.files[loc]],
         metas |-> [loc \in ((DOMAIN h.metas) \ movedMetas)
                              \cup { << pageDirName, l[2] >> : l \in movedMetas } |->
                        IF loc[1] = pageDirName /\ << DefaultLoc, loc[2] >> \in movedMetas
                        THEN h.metas[<< DefaultLoc, loc[2] >>]
                        ELSE h.metas[loc]],
         pages |-> h.pages \cup {pageDirName}]

RECURSIVE organizePages(_, _)
organizePages(h, allHistoriesForOrganizing) ==
    IF Len(allHistoriesForOrganizing) < maxHistoryCount THEN h
    ELSE organizePages(moveToPage(h, SubSeq(allHistoriesForOrganizing, 1, maxHistoryCount)),
                       SubSeq(allHistoriesForOrganizing, 200 + 1,
                              Len(allHistoriesForOrganizing)))

\* A variant of organizeHistoriesIfNeeded that does not keep the last
\* snapshot out of the pages.
organizeHistoriesWithNewest(s, hp) ==
    IF hp \notin DOMAIN s.hist THEN s
    ELSE LET h == s.hist[hp]
             allHistories == SetToSortedSeq({ loc[2] : loc \in { l \in DOMAIN h.files : l[1] = DefaultLoc } })
         IN  [s EXCEPT !.hist[hp] = organizePages(h, allHistories)]

organizeHistoriesIfNeeded(s, hp) ==
    IF hp \notin DOMAIN s.hist THEN s
    ELSE LET h == s.hist[hp]
             allHistories == SetToSortedSeq({ loc[2] : loc \in { l \in DOMAIN h.files : l[1] = DefaultLoc } })
             allHistoriesForOrganizing ==
                 IF Len(allHistories) > 1
                 THEN SubSeq(allHistories, 1, Len(allHistories) - 1)
                 ELSE allHistories
         IN  [s EXCEPT !.hist[hp] = organizePages(h, allHistoriesForOrganizing)]

RECURSIVE organizeKeysFrom(_, _, _)
organizeKeysFrom(s, keys, i) ==
    IF i > Len(keys) THEN Result(s, << >>, NoErr)
    ELSE IF validateKey(keys[i]) # NoErr
         THEN Result(s, << >>, errorWrap(validateKey(keys[i])))
         ELSE organizeKeysFrom(organizeHistoriesIfNeeded(s, keyToHistoryPath(keys[i])),
                               keys, i + 1)

walkAndOrganizeHistories(s) == organizeKeysFrom(s, ListKeys(s, << >>).ret, 1)

\* A variant of hasHistories that asks for the history directory, not for a
\* snapshot in it.
hasHistoriesDirectory(s, hp) == hp \in DOMAIN s.hist

\* hasHistories: the traversal finds a snapshot, in a page or not.
hasHistories(s, hp) == Len(foreachHistories(s, hp)) > 0

\* A variant of ensureHistoryFrom that writes a snapshot for every key,
\* whether it has one or not.
RECURSIVE ensureHistoryEveryKey(_, _, _, _)
ensureHistoryEveryKey(s, keys, i, now) ==
    IF i > Len(keys) THEN Result(s, << >>, NoErr)
    ELSE IF validateKey(keys[i]) # NoErr
         THEN Result(s, << >>, errorWrap(validateKey(keys[i])))
         ELSE LET made == ensureHistoryRecordExists(s, keys[i], keyToHistoryPath(keys[i]), now)
              IN  IF made.err # NoErr THEN Result(made.s, << >>, errorWrap(made.err))
                  ELSE ensureHistoryEveryKey(made.s, keys, i + 1, now)

RECURSIVE ensureHistoryFrom(_, _, _, _)
ensureHistoryFrom(s, keys, i, now) ==
    IF i > Len(keys) THEN Result(s, << >>, NoErr)
    ELSE IF validateKey(keys[i]) # NoErr
         THEN Result(s, << >>, errorWrap(validateKey(keys[i])))
         ELSE LET hp == keyToHistoryPath(keys[i])
              IN  IF hasHistories(s, hp) THEN ensureHistoryFrom(s, keys, i + 1, now)
                  ELSE LET made == ensureHistoryRecordExists(s, keys[i], hp, now)
                       IN  IF made.err # NoErr THEN Result(made.s, << >>, errorWrap(made.err))
                           ELSE ensureHistoryFrom(made.s, keys, i + 1, now)

ensureHistoryForExistingKeys(s, now) == ensureHistoryFrom(s, ListKeys(s, << >>).ret, 1, now)

\* Fsck with ignoreWarning unset: the three passes in the order of the
\* code, the first error ends it.
Fsck(s, now) ==
    LET a == removeOrphanedHistories(s)
    IN  IF a.err # NoErr THEN a
        ELSE LET b == walkAndOrganizeHistories(a.s)
             IN  IF b.err # NoErr THEN b
                 ELSE ensureHistoryForExistingKeys(b.s, now)

\* ------------------------------------------------------------------------
\* Fsck with the ignoreWarning policy, on a file system that fails
\* ------------------------------------------------------------------------

\* errors.Join of the errors of a list.
RECURSIVE joinedFrom(_, _)
joinedFrom(errList, i) ==
    IF i > Len(errList) THEN ""
    ELSE (IF i > 1 THEN ";" ELSE "") \o errList[i] \o joinedFrom(errList, i + 1)

errorsJoin(errList) == "join(" \o joinedFrom(errList, 1) \o ")"

\* What a pass returns of the errors it collected.
returnErrList(errList) ==
    IF Len(errList) = 0 THEN NoErr
    ELSE IF Len(errList) = 1 THEN errList[1]
    ELSE errorsJoin(errList)

\* In what follows, unreadable holds the history directories that the
\* process has no permission on: os.ReadDir, os.WriteFile and os.RemoveAll
\* of what is in them fail with EACCES.

\* removeOrphanedHistories: the callback returns the error of os.RemoveAll,
\* which ends the walk; the policy is not asked.
RECURSIVE removeOrphansOn(_, _, _, _)
removeOrphansOn(s, hps, i, unreadable) ==
    IF i > Len(hps) THEN Result(s, << >>, NoErr)
    ELSE LET relPath == hps[i]
             name == BaseName(relPath)
         IN  IF HasPrefix(name, << "." >>) \/ ~HasSuffix(name, historyDirSuffix)
             THEN removeOrphansOn(s, hps, i + 1, unreadable)
             ELSE LET key == TrimSuffix(relPath, historyDirSuffix)
                      exists == Exists(s, key)
                  IN  IF exists.err # NoErr THEN Result(s, << >>, exists.err)
                      ELSE IF exists.ret THEN removeOrphansOn(s, hps, i + 1, unreadable)
                      ELSE IF relPath \in unreadable
                           THEN Result(s, << >>, errorWrap("EACCES"))
                           ELSE removeOrphansOn(RemoveAllHistory(s, relPath), hps, i + 1,
                                                unreadable)

\* walkAndOrganizeHistories: with the policy an error of a key is put on
\* the list and the loop goes on; without it the error is returned.
RECURSIVE organizeKeysOn(_, _, _, _, _, _)
organizeKeysOn(s, keys, i, ignoreWarning, unreadable, errList) ==
    IF i > Len(keys) THEN Result(s, << >>, returnErrList(errList))
    ELSE LET hp == keyToHistoryPath(keys[i])
             err == IF validateKey(keys[i]) # NoErr THEN errorWrap(validateKey(keys[i]))
                    ELSE IF hp \in unreadable /\ hp \in DOMAIN s.hist THEN errorWrap("EACCES")
                    ELSE NoErr
         IN  IF err = NoErr
             THEN organizeKeysOn(organizeHistoriesIfNeeded(s, hp), keys, i + 1,
                                 ignoreWarning, unreadable, errList)
             ELSE IF ignoreWarning
                  THEN organizeKeysOn(s, keys, i + 1, ignoreWarning, unreadable,
                                      Append(errList, err))
                  ELSE Result(s, << >>, err)

\* ensureHistoryForExistingKeys: with the policy, hasHistories puts the
\* error of the traversal on the list and answers false, the write of the
\* snapshot fails in its turn and its error is put on the list too; without
\* the policy hasHistories returns the joined errors of the traversal.
RECURSIVE ensureHistoryOn(_, _, _, _, _, _, _)
ensureHistoryOn(s, keys, i, now, ignoreWarning, unreadable, errList) ==
    IF i > Len(keys) THEN Result(s, << >>, returnErrList(errList))
    ELSE LET hp == keyToHistoryPath(keys[i])
         IN  IF validateKey(keys[i]) # NoErr
             THEN IF ignoreWarning
                  THEN ensureHistoryOn(s, keys, i + 1, now, ignoreWarning, unreadable,
                                       Append(errList, errorWrap(validateKey(keys[i]))))
                  ELSE Result(s, << >>, errorWrap(validateKey(keys[i])))
             ELSE IF hp \in unreadable /\ hp \in DOMAIN s.hist
             THEN IF ignoreWarning
                  THEN ensureHistoryOn(s, keys, i + 1, now, ignoreWarning, unreadable,
                                       errList \o << errorWrap("EACCES"),
                                                     errorWrap(errorWrap("EACCES")) >>)
                  ELSE Result(s, << >>, errorsJoin(<< errorWrap("EACCES") >>))
             ELSE IF hasHistories(s, hp)
             THEN ensureHistoryOn(s, keys, i + 1, now, ignoreWarning, unreadable, errList)
             ELSE LET made == ensureHistoryRecordExists(s, keys[i], hp, now)
                  IN  IF made.err = NoErr
                      THEN ensureHistoryOn(made.s, keys, i + 1, now, ignoreWarning,
                                           unreadable, errList)
                      ELSE IF ignoreWarning
                           THEN ensureHistoryOn(made.s, keys, i + 1, now, ignoreWarning,
                                                unreadable, Append(errList, errorWrap(made.err)))
                           ELSE Result(made.s, << >>, errorWrap(made.err))

\* Fsck returns the error of the first pass that has one.
FsckOn(s, now, ignoreWarning, unreadable) ==
    LET a == removeOrphansOn(s, WalkOrder(DOMAIN s.hist), 1, unreadable)
    IN  IF a.err # NoErr THEN a
        ELSE LET b == organizeKeysOn(a.s, ListKeys(a.s, << >>).ret, 1,
                                     ignoreWarning, unreadable, << >>)
             IN  IF b.err # NoErr THEN b
                 ELSE ensureHistoryOn(b.s, ListKeys(b.s, << >>).ret, 1, now,
                                      ignoreWarning, unreadable, << >>)

\* ------------------------------------------------------------------------
\* ImportGitRepo
\* ------------------------------------------------------------------------

\* A filter is nil or a function of the path; the paths it accepts stand
\* for the function.
NilFilter == [isNil |-> TRUE, accepts |-> {}]

\* A variant of the filter test that lets every path through.
importAcceptsAll(filter, filePath) == TRUE

\* `filter != nil && !filter(ctx, filePath, when)` skips the file.
importAccepts(filter, filePath) == filter.isNil \/ filePath \in filter.accepts

\* The callback of tree.Files().ForEach for one file of the commit c; st
\* holds the store, lastContent and the result so far.
importFile(st, filter, c, filePath) ==
    LET contentBytes == c.Tree[filePath]
    IN  IF ~importAccepts(filter, filePath) THEN st
        ELSE IF filePath \in DOMAIN st.lastContent /\ st.lastContent[filePath] = contentBytes
             THEN st
        ELSE LET r == SetWithTimestamp(st.s, filePath, contentBytes, c.When)
                 sofar == IF filePath \in DOMAIN st.ImportedFiles
                          THEN st.ImportedFiles[filePath] ELSE << >>
                 importedFile == [GitCommitVersion |-> c.Hash, Version |-> r.ret]
             IN  IF r.err # NoErr
                 THEN [st EXCEPT !.s = r.s,
                                 !.Errors = Append(@, [file |-> filePath,
                                                       err |-> errorWrap(r.err)])]
                 ELSE [st EXCEPT !.s = r.s,
                                 !.ImportedFiles = MapPut(@, filePath, Append(sofar, importedFile)),
                                 !.lastContent = MapPut(@, filePath, contentBytes)]

RECURSIVE importFiles(_, _, _, _, _)
importFiles(st, filter, c, names, i) ==
    IF i > Len(names) THEN st
    ELSE importFiles(importFile(st, filter, c, names[i]), filter, c, names, i + 1)

\* The body of `for idx, c := range commits`: the files of the tree of the
\* commit, in the order of the tree.
importCommit(st, filter, c) ==
    importFiles(st, filter, c, SetToSortedSeq(DOMAIN c.Tree), 1)

\* ------------------------------------------------------------------------
\* The state machine
\* ------------------------------------------------------------------------

VARIABLES
    files,   \* the regular files of the live tree: path -> bytes
    dirs,    \* the directories of the live tree
    hist,    \* the history directories under <root>/.history
    clock,   \* what timex.Now().UnixNano() returns
    calls,   \* the number of calls made so far
    cache,   \* the map of a CachedFileKVStore on the store: key -> bytes
    pc,      \* where each thread that calls the CachedFileKVStore is
    import,  \* the ImportGitRepo that runs on the store: its locals and result
    walk     \* the removal loop of a cleanup that is under way, and its context

vars == << files, dirs, hist, clock, calls, cache, pc, import, walk >>

Store == [files |-> files, dirs |-> dirs, hist |-> hist]

\* The keys, values and timestamps of the calls: "ab" is a key and the
\* directory of "ab/c", and a string prefix of "abx".
KeyAB == << "a", "b" >>
KeyABC == << "a", "b", "/", "c" >>
KeyABx == << "a", "b", "x" >>

Keys == { KeyAB, KeyABC, KeyABx }

\* Other spellings of valid keys: "ab//c" has the live path and the history
\* directory of "ab/c"; "ab/" has the live path of "ab".
KeyABSlashSlashC == << "a", "b", "/", "/", "c" >>
KeyABSlash == << "a", "b", "/" >>

ValidKeys == Keys \cup { KeyABSlashSlashC, KeyABSlash }

Values == { "", "x" }

Timestamps == { 0, 9, 10 }

InitClock == 9

HeadVersion == << "h", "e", "a", "d" >>

\* The versions a caller asks for: head, every version and every name the
\* history of the key has, and one it does not have.
VersionInputs(s, key) ==
    LET entries == traverseDir(s, keyToHistoryPath(key))
    IN  { HeadVersion, << "7" >> }
          \cup { entries[i].Version : i \in 1..Len(entries) }
          \cup { entries[i].Name : i \in 1..Len(entries) }

MetaInputs == { [m |-> "1"], [m |-> "2", n |-> "3"] }

MaxAges == { 0, NanosPerSecond }

MaxCounts == { 0, 1, 2 }

\* No cleanup is under way.
NoWalk == [at |-> "idle", hp |-> << >>, entries |-> << >>, i |-> 0, cancelled |-> FALSE]

\* No ImportGitRepo has begun.  Next to lastContent and the result, the
\* record keeps the store the import began on and, of every path, what the
\* commits so far did with it: in how many it is, how often its content
\* differs from the one in the previous commit that has it, and the content
\* in the newest commit that has it.
NoImport ==
    [begun |-> FALSE, filter |-> NilFilter, idx |-> 0, lastWhen |-> 0,
     lastContent |-> EmptyMap, ImportedFiles |-> EmptyMap, Errors |-> << >>,
     before |-> EmptyStore, contained |-> EmptyMap, changes |-> EmptyMap,
     newest |-> EmptyMap]

\* A call leaves the store of its result.
Becomes(r) ==
    /\ calls < MaxCalls
    /\ calls' = calls + 1
    /\ files' = r.s.files
    /\ dirs' = r.s.dirs
    /\ hist' = r.s.hist
    /\ UNCHANGED << clock, cache, pc, import, walk >>

Init ==
    /\ files = EmptyMap
    /\ dirs = {}
    /\ hist = EmptyMap
    /\ clock = InitClock
    /\ calls = 0
    /\ cache = EmptyMap
    /\ pc = EmptyMap
    /\ import = NoImport
    /\ walk = NoWalk

Tick ==
    /\ clock < MaxClock
    /\ clock' = clock + 1
    /\ UNCHANGED << files, dirs, hist, calls, cache, pc, import, walk >>

\* Set is also called with the other spellings of the keys.
DoSet ==
    \E key \in ValidKeys, value \in Values :
        Becomes(Set(Store, key, value, clock))

DoSetWithTimestamp ==
    \E key \in Keys, value \in Values, ts \in Timestamps :
        Becomes(SetWithTimestamp(Store, key, value, ts))

DoSetMeta ==
    \E key \in Keys, meta \in MetaInputs :
        \E version \in VersionInputs(Store, key) :
            Becomes(SetMeta(Store, key, version, meta, clock))

DoUpdateMeta ==
    \E key \in Keys, meta \in MetaInputs :
        \E version \in VersionInputs(Store, key) :
            Becomes(UpdateMeta(Store, key, version, meta, clock))

DoDelete ==
    \E key \in Keys, removeHistories \in BOOLEAN :
        Becomes(Delete(Store, key, removeHistories))

DoCleanupHistoriesByTime ==
    \E key \in Keys, maxAge \in MaxAges :
        Becomes(CleanupHistoriesByTime(Store, key, maxAge, clock))

DoCleanupHistoriesByCount ==
    \E key \in Keys, maxCount \in MaxCounts :
        Becomes(CleanupHistoriesByCount(Store, key, maxCount))

DoFsck == Becomes(Fsck(Store, clock))

Next ==
    \/ Tick
    \/ DoSet
    \/ DoSetWithTimestamp
    \/ DoSetMeta
    \/ DoUpdateMeta
    \/ DoDelete
    \/ DoCleanupHistoriesByTime
    \/ DoCleanupHistoriesByCount
    \/ DoFsck

Spec == Init /\ [][Next]_vars

\* ------------------------------------------------------------------------
\* Vocabulary of the properties
\* ------------------------------------------------------------------------

\* The timestamps tried in a state: the fixed ones and the clock (Set).
TimestampInputs == Timestamps \cup { clock }

\* The snapshot files of a key, each a place <<page, name>>, and their bytes.
SnapshotsOf(s, key) == HistoryAt(s, keyToHistoryPath(key)).files

MetasOf(s, key) == HistoryAt(s, keyToHistoryPath(key)).metas

SnapshotCount(s, key) == Cardinality(DOMAIN SnapshotsOf(s, key))

\* Key has a live value: a regular file at its live path.
HasLiveValue(s, key) == keyToPath(key) \in DOMAIN s.files

\* The position of the first "_" of a version name, 0 when it has none.
UnderscoreAt(name) ==
    IF ContainsChar(name, "_")
    THEN CHOOSE i \in 1..Len(name) : name[i] = "_" /\ \A j \in 1..(i - 1) : name[j] # "_"
    ELSE 0

\* The integer timestamp of a version name: the digits before the "_".
TimestampOf(name) ==
    IF UnderscoreAt(name) = 0 THEN ParseInt(name).val
    ELSE ParseInt(SubSeq(name, 1, UnderscoreAt(name) - 1)).val

\* The collision suffix of a version name; a name without one comes first.
SuffixOf(name) ==
    IF UnderscoreAt(name) = 0 THEN -1
    ELSE ParseInt(SubSeq(name, UnderscoreAt(name) + 1, Len(name))).val

\* Version order: by the integer timestamp, then by the collision suffix.
VersionBefore(v, w) ==
    \/ TimestampOf(v) < TimestampOf(w)
    \/ TimestampOf(v) = TimestampOf(w) /\ SuffixOf(v) < SuffixOf(w)

\* ------------------------------------------------------------------------
\* Properties
\* ------------------------------------------------------------------------

\* C1: in every reachable state, for every valid key and value, when
\* SetWithTimestamp (any timestamp) or Set (the clock) returns without
\* error, a Get of the key right after it returns exactly the value,
\* whether the call made a snapshot or not.
C1_SetThenGet ==
    \A key \in ValidKeys, value \in Values, ts \in TimestampInputs :
        LET r == SetWithTimestamp(Store, key, value, ts)
        IN  r.err = NoErr =>
                /\ Get(r.s, key).err = NoErr
                /\ Get(r.s, key).ret = value

\* C1 witness: a Set has written a key (its live value and a snapshot of it
\* are there), and a further Set of the key succeeds both with the same
\* bytes (no snapshot) and with other bytes (a snapshot).
C1_Witness ==
    \E key \in Keys, value \in Values :
        /\ calls > 0
        /\ HasLiveValue(Store, key)
        /\ \E loc \in DOMAIN SnapshotsOf(Store, key) :
                SnapshotsOf(Store, key)[loc] = Store.files[keyToPath(key)]
        /\ SetWithTimestamp(Store, key, Store.files[keyToPath(key)], clock).err = NoErr
        /\ SetWithTimestamp(Store, key, Store.files[keyToPath(key)], clock).ret = << >>
        /\ value # Store.files[keyToPath(key)]
        /\ SetWithTimestamp(Store, key, value, clock).ret # << >>

\* C2: a SetWithTimestamp that returns without error adds exactly one
\* snapshot of the key and returns a non-empty version when the key has no
\* live value or its live bytes differ from the value (an empty value
\* included), and every older snapshot stays as it is; when the live bytes
\* equal the value it leaves the history as it is and returns the empty
\* string.  So a second Set of the same bytes right after it adds nothing.
C2_SnapshotOnlyOnChange ==
    \A key \in ValidKeys, value \in Values, ts \in TimestampInputs :
        LET r == SetWithTimestamp(Store, key, value, ts)
            changed == ~HasLiveValue(Store, key) \/ Store.files[keyToPath(key)] # value
        IN  r.err = NoErr =>
                /\ changed =>
                     /\ SnapshotCount(r.s, key) = SnapshotCount(Store, key) + 1
                     /\ r.ret # << >>
                     /\ \A loc \in DOMAIN SnapshotsOf(Store, key) :
                            /\ loc \in DOMAIN SnapshotsOf(r.s, key)
                            /\ SnapshotsOf(r.s, key)[loc] = SnapshotsOf(Store, key)[loc]
                /\ ~changed =>
                     /\ r.s.hist = Store.hist
                     /\ r.ret = << >>
                /\ \A ts2 \in { ts, clock } :
                     LET r2 == SetWithTimestamp(r.s, key, value, ts2)
                     IN  /\ r2.err = NoErr
                         /\ r2.ret = << >>
                         /\ r2.s.hist = r.s.hist

\* C2 witness: the first write of a key was one of an empty value and made
\* its only snapshot; the same bytes set again make none.
C2_Witness ==
    \E key \in Keys :
        /\ calls > 0
        /\ HasLiveValue(Store, key)
        /\ Store.files[keyToPath(key)] = ""
        /\ SnapshotCount(Store, key) = 1
        /\ \A loc \in DOMAIN SnapshotsOf(Store, key) : SnapshotsOf(Store, key)[loc] = ""
        /\ SetWithTimestamp(Store, key, "", clock).ret = << >>
        /\ SnapshotCount(SetWithTimestamp(Store, key, "", clock).s, key) = 1

\* C3 (as claimed): the non-empty version a successful SetWithTimestamp
\* returns is the name of the snapshot file it has just written, with the
\* _n suffix when the timestamp was taken, so that GetByVersion of it
\* returns the value.
C3_ReturnedVersionNamesSnapshot ==
    \A key \in ValidKeys, value \in Values, ts \in TimestampInputs :
        LET r == SetWithTimestamp(Store, key, value, ts)
        IN  (r.err = NoErr /\ r.ret # << >>) =>
                /\ << DefaultLoc, r.ret >> \in
                       (DOMAIN SnapshotsOf(r.s, key)) \ (DOMAIN SnapshotsOf(Store, key))
                /\ GetByVersion(r.s, key, r.ret).err = NoErr
                /\ GetByVersion(r.s, key, r.ret).ret = value

\* The names of the snapshots of a key, wherever they are stored.
SnapshotNames(s, key) == { loc[2] : loc \in DOMAIN SnapshotsOf(s, key) }

\* The greatest integer timestamp among the snapshots of a key.
MaxTimestamp(s, key) ==
    CHOOSE t \in { TimestampOf(n) : n \in SnapshotNames(s, key) } :
        \A n \in SnapshotNames(s, key) : TimestampOf(n) <= t

\* The location-qualified name of a snapshot: <version> or <page>/<version>.
QualifiedName(loc) ==
    IF loc[1] = DefaultLoc THEN loc[2] ELSE loc[1] \o << "/" >> \o loc[2]

\* C4 (as claimed): GetHistories returns one handle per snapshot of the
\* key, none twice, and the handles ascend in version order: by the integer
\* timestamp, then by the collision suffix, whatever the digit counts.
C4_HistoriesAscendByInteger ==
    \A key \in ValidKeys :
        LET r == GetHistories(Store, key)
        IN  /\ r.err = NoErr
            /\ Len(r.ret) = SnapshotCount(Store, key)
            /\ { r.ret[i].Name : i \in 1..Len(r.ret) } =
                   { QualifiedName(loc) : loc \in DOMAIN SnapshotsOf(Store, key) }
            /\ \A i, j \in 1..Len(r.ret) :
                   i < j => VersionBefore(r.ret[i].Version, r.ret[j].Version)

\* C5 (as claimed): whenever the key has a snapshot, GetLastVersion succeeds,
\* its Version is the greatest integer timestamp among the snapshots and
\* its Name is that of a snapshot with this timestamp; and after a Set at a
\* timestamp above all the others that changed the value, it is the version
\* this Set returned.
C5_LastVersionIsMaximum ==
    \A key \in ValidKeys :
        /\ SnapshotCount(Store, key) > 0 =>
             LET r == GetLastVersion(Store, key)
             IN  /\ r.err = NoErr
                 /\ r.ret.Version = FormatInt(MaxTimestamp(Store, key))
                 /\ \E loc \in DOMAIN SnapshotsOf(Store, key) :
                        /\ QualifiedName(loc) = r.ret.Name
                        /\ TimestampOf(loc[2]) = MaxTimestamp(Store, key)
        /\ \A value \in Values :
             LET w == SetWithTimestamp(Store, key, value, clock)
             IN  ( /\ w.err = NoErr
                   /\ w.ret # << >>
                   /\ \A n \in SnapshotNames(Store, key) : TimestampOf(n) < clock )
                 => /\ GetLastVersion(w.s, key).err = NoErr
                    /\ GetLastVersion(w.s, key).ret.Version = w.ret

\* C6: Delete of a key whose live path is a directory, with either value of
\* removeHistories, fails with the has-children error and leaves every
\* live value, directory, snapshot and meta as it was.
C6_DeleteOfDirectoryFails ==
    \A key \in ValidKeys, rh \in BOOLEAN :
        StatLive(Store, keyToPath(key)) = "dir" =>
            /\ Delete(Store, key, rh).err = "HasChildren"
            /\ Delete(Store, key, rh).s = Store

\* C6 witness: "ab/c" has a live value and snapshots, so "ab" is a
\* directory, and Delete("ab") is refused.
C6_Witness ==
    /\ HasLiveValue(Store, KeyABC)
    /\ SnapshotCount(Store, KeyABC) > 0
    /\ StatLive(Store, keyToPath(KeyAB)) = "dir"
    /\ Delete(Store, KeyAB, TRUE).err = "HasChildren"
    /\ Delete(Store, KeyABC, TRUE).err = NoErr

\* C7: a Delete of a key that has a live value succeeds; after it Exists is
\* false and Get fails; with removeHistories the history directory of the
\* key is gone, without it the whole history tree (every snapshot and meta)
\* is as before; no other live value changes.
C7_DeleteRemovesLiveValue ==
    \A key \in ValidKeys, rh \in BOOLEAN :
        LET r == Delete(Store, key, rh)
        IN  HasLiveValue(Store, key) =>
                /\ r.err = NoErr
                /\ Exists(r.s, key).ret = FALSE
                /\ Exists(r.s, key).err = NoErr
                /\ Get(r.s, key).err # NoErr
                /\ rh => keyToHistoryPath(key) \notin DOMAIN r.s.hist
                /\ ~rh => r.s.hist = Store.hist
                /\ \A p \in (DOMAIN Store.files) \ { keyToPath(key) } :
                       p \in DOMAIN r.s.files /\ r.s.files[p] = Store.files[p]

\* C7 witness: a key was deleted with its history kept (no live value, its
\* snapshots still there) while another key, still live, has snapshots and
\* metadata that a Delete with removeHistories would take away.
C7_Witness ==
    \E key \in Keys, other \in Keys :
        /\ ~HasLiveValue(Store, key)
        /\ StatLive(Store, keyToPath(key)) = "ENOENT"
        /\ SnapshotCount(Store, key) > 0
        /\ HasLiveValue(Store, other)
        /\ SnapshotCount(Store, other) > 0
        /\ Delete(Store, other, TRUE).s.hist # Store.hist
        /\ Delete(Store, other, FALSE).s.hist = Store.hist

\* C8: the boolean Exists returns is true exactly when the key has a live
\* value, a regular file at its live path; it is false, without error, for
\* a key whose path is absent (never set, or deleted) and for a namespace
\* node, a directory.  (Below a live key, where the path cannot exist, the
\* false comes with the error of os.Stat.)
C8_ExistsIffLiveValue ==
    \A key \in ValidKeys :
        LET r == Exists(Store, key)
        IN  /\ r.ret = HasLiveValue(Store, key)
            /\ HasLiveValue(Store, key) => r.err = NoErr
            /\ StatLive(Store, keyToPath(key)) \in { "ENOENT", "dir" } =>
                   r.ret = FALSE /\ r.err = NoErr
            /\ r.s = Store

\* C8 witness: "ab/c" is live, so "ab" is a namespace node; "abx" was set
\* and deleted (its history remains).
C8_Witness ==
    /\ Exists(Store, KeyABC).ret = TRUE
    /\ StatLive(Store, keyToPath(KeyAB)) = "dir"
    /\ Exists(Store, KeyAB).ret = FALSE
    /\ SnapshotCount(Store, KeyABx) > 0
    /\ Exists(Store, KeyABx).ret = FALSE

\* The prefixes tried with ListKeys: empty, ending inside a part, a whole
\* part, with the separator, a whole key, and ones that match nothing.
Prefixes ==
    { << >>, << "a" >>, KeyAB, KeyABSlash, KeyABC, KeyABx,
      << "a", "b", "/", "/" >>, << "b" >>, << "a", "b", "/", "c", "d" >> }

\* A part no key may have: it starts with "." or "p_", or ends with ".h".
SpecialPart(part) ==
    \/ HasPrefix(part, << "." >>)
    \/ HasPrefix(part, pagePrefix)
    \/ HasSuffix(part, historyDirSuffix)

\* C9: ListKeys(prefix) returns, each once, exactly the keys with a live
\* value (as root-relative paths) that begin with the prefix as a plain
\* string, for every prefix; and no key it returns has a part that starts
\* with "." or "p_" or ends with ".h".
C9_ListKeysExactlyLiveKeysWithPrefix ==
    \A prefix \in Prefixes :
        LET r == ListKeys(Store, prefix)
            listed == { r.ret[i] : i \in 1..Len(r.ret) }
        IN  /\ r.err = NoErr
            /\ Cardinality(listed) = Len(r.ret)
            /\ listed = { p \in DOMAIN Store.files : HasPrefix(p, prefix) }
            /\ \A p \in listed :
                   \A i \in 1..Len(NonEmptyParts(p)) : ~SpecialPart(NonEmptyParts(p)[i])

\* C9 witness: "ab/c" and "abx" are live; the prefix "ab" ends inside a
\* part and lists both, "ab/" lists one, and with the prefix "b" the
\* directory "ab" is pruned.
C9_Witness ==
    /\ HasLiveValue(Store, KeyABC)
    /\ HasLiveValue(Store, KeyABx)
    /\ ListKeys(Store, KeyAB).ret = << KeyABC, KeyABx >>
    /\ ListKeys(Store, KeyABSlash).ret = << KeyABC >>
    /\ KeyAB \in Store.dirs
    /\ pruneDir(KeyAB, << "b" >>)
    /\ ListKeys(Store, << "b" >>).ret = << >>

\* C10 (as claimed): CleanupHistoriesByCount(k, N) on a key with M snapshots
\* leaves min(M, N) of them, those kept are newer in version order (integer
\* timestamp, then suffix) than every one removed, and the metas left are
\* those of the snapshots kept, unchanged.
C10_CleanupByCountKeepsNewest ==
    \A key \in ValidKeys, N \in MaxCounts :
        LET r == CleanupHistoriesByCount(Store, key, N)
            before == DOMAIN SnapshotsOf(Store, key)
            after == DOMAIN SnapshotsOf(r.s, key)
            M == Cardinality(before)
        IN  /\ r.err = NoErr
            /\ after \subseteq before
            /\ Cardinality(after) = IF M < N THEN M ELSE N
            /\ \A kept \in after, gone \in before \ after :
                   VersionBefore(gone[2], kept[2])
            /\ DOMAIN MetasOf(r.s, key) = (DOMAIN MetasOf(Store, key)) \cap after
            /\ \A m \in DOMAIN MetasOf(r.s, key) :
                   MetasOf(r.s, key)[m] = MetasOf(Store, key)[m]

\* C11 (as claimed): CleanupHistoriesByTime(k, maxAge) at clock reading now
\* removes exactly the snapshots whose timestamp, in nanoseconds like now,
\* is below now - maxAge, with their metas, and keeps all the others.
C11_CleanupByTimeSameUnit ==
    \A key \in ValidKeys, maxAge \in MaxAges :
        LET r == CleanupHistoriesByTime(Store, key, maxAge, clock)
            before == DOMAIN SnapshotsOf(Store, key)
            after == DOMAIN SnapshotsOf(r.s, key)
        IN  /\ r.err = NoErr
            /\ after = { loc \in before : ~(TimestampOf(loc[2]) < clock - maxAge) }
            /\ DOMAIN MetasOf(r.s, key) = (DOMAIN MetasOf(Store, key)) \cap after

\* ------------------------------------------------------------------------
\* Long histories
\*
\* A second specification starts from stores in which the key "ab" has been
\* set PagedCount times, with the timestamps PagedBase + 1, PagedBase + 2, ..
\* and alternating values, so that it has that many snapshots in the
\* default location; the first and the last two of them have been given
\* metadata with SetMeta.
\* ------------------------------------------------------------------------

\* The timestamps of the long histories start above PagedBase: all of them
\* have four digits.
PagedBase == 1000

\* The numbers of snapshots of the long histories.
PagedCounts == { maxHistoryCount, maxHistoryCount + 1, 2 * maxHistoryCount + 50 }

\* The value of the i-th Set of the series.
PagedValue(i) == IF i % 2 = 1 THEN "x" ELSE ""

PagedMeta == [m |-> "1"]

\* The store after the series of n calls of SetWithTimestamp and the calls
\* of SetMeta.
PagedStore(n) ==
    [files |-> [p \in { keyToPath(KeyAB) } |-> PagedValue(n)],
     dirs  |-> {},
     hist  |-> [hp \in { keyToHistoryPath(KeyAB) } |->
                  [files |-> [loc \in { << DefaultLoc, FormatInt(PagedBase + i) >> : i \in 1..n } |->
                                 PagedValue(ParseInt(loc[2]).val - PagedBase)],
                   metas |-> [loc \in { << DefaultLoc, FormatInt(PagedBase + i) >> : i \in { 1, n - 1, n } } |->
                                 propertiesLines(PagedMeta)],
                   pages |-> {}]]]

InitPaged ==
    \E n \in PagedCounts :
        /\ files = PagedStore(n).files
        /\ dirs = PagedStore(n).dirs
        /\ hist = PagedStore(n).hist
        /\ clock = InitClock
        /\ calls = 1
        /\ cache = EmptyMap
        /\ pc = EmptyMap
        /\ import = NoImport
        /\ walk = NoWalk

\* The versions SetMeta is called with on a long history: head, the oldest
\* snapshot, the last one of the first page and the one after it, and the
\* names a Set at the clock gives.
SampleVersions ==
    { HeadVersion,
      FormatInt(PagedBase + 1),
      FormatInt(PagedBase + maxHistoryCount),
      FormatInt(PagedBase + maxHistoryCount + 1),
      FormatInt(InitClock),
      FormatInt(MaxClock) }

DoSetMetaSampled ==
    \E key \in Keys, meta \in MetaInputs, version \in SampleVersions :
        Becomes(SetMeta(Store, key, version, meta, clock))

NextPaged ==
    \/ Tick
    \/ DoSet
    \/ DoSetWithTimestamp
    \/ DoSetMetaSampled
    \/ DoDelete
    \/ DoCleanupHistoriesByCount
    \/ DoFsck

SpecPaged == InitPaged /\ [][NextPaged]_vars

\* ------------------------------------------------------------------------
\* Properties of Fsck and of the metadata
\* ------------------------------------------------------------------------

\* The number of snapshot files of a key in one directory of its history.
SnapshotsIn(s, key, page) ==
    Cardinality({ loc \in DOMAIN SnapshotsOf(s, key) : loc[1] = page })

PagesOf(s, key) == HistoryAt(s, keyToHistoryPath(key)).pages

\* C12 (as claimed): after a Fsck that returns without error, started in
\* any reachable state, for every live key the default location of its
\* history holds at most maxHistoryCount snapshot files, and every page
\* directory of it holds exactly maxHistoryCount snapshot files or none.
C12_FsckLeavesFullPages ==
    LET r == Fsck(Store, clock)
    IN  r.err = NoErr =>
            \A key \in Keys :
                HasLiveValue(r.s, key) =>
                    /\ SnapshotsIn(r.s, key, DefaultLoc) <= maxHistoryCount
                    /\ \A page \in PagesOf(r.s, key) :
                           SnapshotsIn(r.s, key, page) \in { 0, maxHistoryCount }

\* C13 (as claimed): after a Fsck that returns without error, for every key
\* with snapshots in the default location, the snapshot GetLastVersion
\* reports (the one of the greatest version) is in the default location,
\* and every snapshot this Fsck has moved into a page is older, in version
\* order, than every snapshot it has left in the default location.
C13_FsckKeepsNewestInDefault ==
    LET r == Fsck(Store, clock)
    IN  r.err = NoErr =>
            \A key \in Keys :
                LET after == DOMAIN SnapshotsOf(r.s, key)
                    left == { loc \in after : loc[1] = DefaultLoc }
                    moved == { loc \in after \ DOMAIN SnapshotsOf(Store, key) : loc[1] # DefaultLoc }
                    last == GetLastVersion(r.s, key)
                IN  left # {} =>
                        /\ last.err = NoErr
                        /\ MetaLoc(last.ret.Name) \in left
                        /\ \A m \in moved, d \in left : VersionBefore(m[2], d[2])

\* The snapshots of a key without their places: name and bytes.
SnapshotContents(s, key) ==
    { << loc[2], SnapshotsOf(s, key)[loc] >> : loc \in DOMAIN SnapshotsOf(s, key) }

\* C14 (as claimed): after a Fsck that returns without error there is no
\* history directory of a key without a live value, and the history of every
\* key with a live value still has every snapshot it had, name and bytes.
C14_FsckRemovesOrphanedHistories ==
    LET r == Fsck(Store, clock)
    IN  r.err = NoErr =>
            \A key \in ValidKeys :
                /\ keyToHistoryPath(key) \in DOMAIN r.s.hist => HasLiveValue(r.s, key)
                /\ HasLiveValue(Store, key) =>
                       SnapshotContents(Store, key) \subseteq SnapshotContents(r.s, key)

\* C15: a Fsck at clock reading T returns without error, and every key with
\* a live value and no snapshot at its start has exactly one snapshot after
\* it, named T, in the default location, with the live value as content;
\* a key that had a snapshot has the same snapshots, no new one.
C15_FsckBackfillsOneSnapshot ==
    LET r == Fsck(Store, clock)
    IN  /\ r.err = NoErr
        /\ \A key \in Keys :
               HasLiveValue(Store, key) =>
                   IF SnapshotCount(Store, key) = 0
                   THEN /\ DOMAIN SnapshotsOf(r.s, key) = { << DefaultLoc, FormatInt(clock) >> }
                        /\ SnapshotsOf(r.s, key)[<< DefaultLoc, FormatInt(clock) >>]
                               = Store.files[keyToPath(key)]
                   ELSE SnapshotContents(r.s, key) = SnapshotContents(Store, key)

\* C15 witness: a key has a live value and an emptied history (its
\* snapshots were cleaned up), another one has a live value and a snapshot;
\* Fsck gives the first the snapshot named by the clock and leaves the
\* second with the one it had.
C15_Witness ==
    \E key \in Keys, other \in Keys :
        /\ HasLiveValue(Store, key)
        /\ keyToHistoryPath(key) \in DOMAIN Store.hist
        /\ SnapshotCount(Store, key) = 0
        /\ HasLiveValue(Store, other)
        /\ SnapshotCount(Store, other) = 1
        /\ Fsck(Store, clock).err = NoErr
        /\ SnapshotNames(Fsck(Store, clock).s, key) = { FormatInt(clock) }
        /\ SnapshotCount(Fsck(Store, clock).s, other) = 1

\* What the history of a key holds for its callers: for every handle of
\* GetHistories its Version, what GetByVersion of that version gives, and
\* its Meta.
HistoryTriples(s, key) ==
    LET hs == GetHistories(s, key).ret
    IN  { << hs[i].Version,
             GetByVersion(s, key, hs[i].Version).ret,
             GetByVersion(s, key, hs[i].Version).err,
             hs[i].Meta >> : i \in 1..Len(hs) }

\* C16: a Fsck that returns without error leaves Get of every key with a
\* live value as it was, and leaves the triples (Version, bytes of
\* GetByVersion, Meta) of its history as they were; only for a key that had
\* no snapshot the one triple of the backfilled snapshot (the clock, the
\* live value, no meta) is new.
C16_FsckKeepsValuesAndHistories ==
    LET r == Fsck(Store, clock)
    IN  r.err = NoErr =>
            \A key \in ValidKeys :
                HasLiveValue(Store, key) =>
                    /\ Get(r.s, key).err = NoErr
                    /\ Get(r.s, key).ret = Get(Store, key).ret
                    /\ GetHistories(r.s, key).err = NoErr
                    /\ HistoryTriples(r.s, key) =
                           IF key \in Keys /\ SnapshotCount(Store, key) = 0
                           THEN { << FormatInt(clock), Get(Store, key).ret, NoErr, EmptyMap >> }
                           ELSE HistoryTriples(Store, key)

\* C16 witness: a key has a live value and more than maxHistoryCount
\* snapshots in the default location, one of them with a meta that SetMeta
\* has replaced; Fsck moves that snapshot into a page, where GetHistories
\* reports it under a new Name with the same Meta.
C16_Witness ==
    \E key \in Keys :
        /\ HasLiveValue(Store, key)
        /\ SnapshotsIn(Store, key, DefaultLoc) > maxHistoryCount
        /\ Fsck(Store, clock).err = NoErr
        /\ \E loc \in DOMAIN MetasOf(Store, key) :
               /\ loc[1] = DefaultLoc
               /\ MetasOf(Store, key)[loc] # propertiesLines(PagedMeta)
               /\ loc \notin DOMAIN SnapshotsOf(Fsck(Store, clock).s, key)
               /\ \E page \in PagesOf(Fsck(Store, clock).s, key) :
                      /\ << page, loc[2] >> \in DOMAIN SnapshotsOf(Fsck(Store, clock).s, key)
                      /\ MetasOf(Fsck(Store, clock).s, key)[<< page, loc[2] >>]
                             = MetasOf(Store, key)[loc]

\* The state Fsck is there to restore: every key with a live value has a
\* snapshot, every history directory is the one of a key with a live value,
\* and no default location holds more than maxHistoryCount snapshots.
StoreInvariants(s) ==
    /\ \A key \in Keys : HasLiveValue(s, key) => SnapshotCount(s, key) >= 1
    /\ \A hp \in DOMAIN s.hist :
           \E key \in ValidKeys : hp = keyToHistoryPath(key) /\ HasLiveValue(s, key)
    /\ \A key \in ValidKeys : SnapshotsIn(s, key, DefaultLoc) < maxHistoryCount + 1

\* C17: in a state that satisfies these invariants Fsck returns without
\* error and leaves the live files, the directories and the histories, files
\* and contents, exactly as they are.
C17_FsckLeavesHealthyStoreUnchanged ==
    StoreInvariants(Store) =>
        /\ Fsck(Store, clock).err = NoErr
        /\ Fsck(Store, clock).s = Store

\* C17 witness: calls have been made, the invariants hold, one key has
\* exactly maxHistoryCount snapshots in its default location and another
\* key has a history too; Fsck changes nothing.
C17_Witness ==
    /\ calls > 1
    /\ StoreInvariants(Store)
    /\ \E key \in Keys, other \in Keys :
           /\ other # key
           /\ SnapshotsIn(Store, key, DefaultLoc) = maxHistoryCount
           /\ SnapshotCount(Store, other) = 1
    /\ Fsck(Store, clock).s = Store

\* The clock readings of a second run: the same one, and a later one.
LaterClocks == { clock, clock + 1 }

\* C18: a Fsck right after a Fsck that returned without error, at the same
\* or at a later clock reading, returns without error and leaves the store
\* as the first one left it; and so does each of the three passes when it
\* is run twice on its own.
C18_FsckIdempotent ==
    LET r == Fsck(Store, clock)
        a == removeOrphanedHistories(Store)
        b == walkAndOrganizeHistories(Store)
        c == ensureHistoryForExistingKeys(Store, clock)
    IN  /\ r.err = NoErr =>
               \A later \in LaterClocks :
                   /\ Fsck(r.s, later).err = NoErr
                   /\ Fsck(r.s, later).s = r.s
        /\ a.err = NoErr => removeOrphanedHistories(a.s) = a
        /\ b.err = NoErr => walkAndOrganizeHistories(b.s) = b
        /\ c.err = NoErr =>
               \A later \in LaterClocks : ensureHistoryForExistingKeys(c.s, later) = c

\* C18 witness: one key has more than maxHistoryCount snapshots in its
\* default location and another key has a live value and no snapshot, so
\* that the first Fsck makes a page and backfills a snapshot; the second
\* one, at a later clock reading, changes nothing.
C18_Witness ==
    \E key \in Keys, other \in Keys :
        /\ SnapshotsIn(Store, key, DefaultLoc) > maxHistoryCount
        /\ HasLiveValue(Store, other)
        /\ SnapshotCount(Store, other) = 0
        /\ Fsck(Store, clock).err = NoErr
        /\ PagesOf(Fsck(Store, clock).s, key) # {}
        /\ SnapshotCount(Fsck(Store, clock).s, other) = 1
        /\ Fsck(Fsck(Store, clock).s, clock + 1).s = Fsck(Store, clock).s

\* C19 (as claimed): SetMeta(k, "head", m) on a key with a live value
\* returns without error; when the key has no snapshot it makes exactly one,
\* named by the clock, with the live value as content, and gives it the
\* meta m; when the key has snapshots it makes none and gives m to the
\* snapshot GetLastVersion reports.
C19_SetMetaHead ==
    \A key \in Keys, meta \in MetaInputs :
        LET r == SetMeta(Store, key, HeadVersion, meta, clock)
            made == << DefaultLoc, FormatInt(clock) >>
            last == GetLastVersion(Store, key)
        IN  HasLiveValue(Store, key) =>
                /\ r.err = NoErr
                /\ IF SnapshotCount(Store, key) = 0
                   THEN /\ DOMAIN SnapshotsOf(r.s, key) = { made }
                        /\ SnapshotsOf(r.s, key)[made] = Store.files[keyToPath(key)]
                        /\ readProperties(MetasOf(r.s, key), made) = meta
                   ELSE /\ SnapshotsOf(r.s, key) = SnapshotsOf(Store, key)
                        /\ last.err = NoErr
                        /\ readProperties(MetasOf(r.s, key), MetaLoc(last.ret.Name)) = meta

\* The place of the snapshot a version names for SetMeta: the one
\* GetLastVersion reports for head, else the one in the default location,
\* else the one in the first page that has it.
TargetOf(s, key, version) ==
    IF IsHead(version) THEN MetaLoc(GetLastVersion(s, key).ret.Name)
    ELSE IF << DefaultLoc, version >> \in DOMAIN SnapshotsOf(s, key)
         THEN << DefaultLoc, version >>
    ELSE LET pages == { p \in PagesOf(s, key) : << p, version >> \in DOMAIN SnapshotsOf(s, key) }
         IN  << CHOOSE p \in pages : \A q \in pages : p = q \/ StrLess(p, q), version >>

\* The handles GetHistories returns for the snapshot at a place.
HandlesAt(s, key, loc) ==
    LET hs == GetHistories(s, key).ret
    IN  { hs[i] : i \in { j \in 1..Len(hs) : hs[j].Name = QualifiedName(loc) } }

UpdateTargetOf(s, key, version, now) ==
    IF IsHead(version) /\ GetLastVersion(s, key).err # NoErr
    THEN << DefaultLoc, FormatInt(now) >>
    ELSE TargetOf(s, key, version)

\* C21: when UpdateMeta(k, version, m) returns without error for head or
\* for a version that names a snapshot of k, the meta of that snapshot has
\* the keys of the old meta and of m and no others, every key of m with its
\* value in m and every other key with its old value; without an old meta
\* it is m.
C21_UpdateMetaMerges ==
    \A key \in ValidKeys, meta \in MetaInputs :
        \A version \in VersionInputs(Store, key) :
            LET r == UpdateMeta(Store, key, version, meta, clock)
                loc == UpdateTargetOf(Store, key, version, clock)
                old == readProperties(MetasOf(Store, key), loc)
                new == readProperties(MetasOf(r.s, key), loc)
            IN  (r.err = NoErr /\ (IsHead(version) \/ version \in SnapshotNames(Store, key))) =>
                    /\ loc \in DOMAIN SnapshotsOf(r.s, key)
                    /\ loc \in DOMAIN MetasOf(r.s, key)
                    /\ DOMAIN new = (DOMAIN old) \cup (DOMAIN meta)
                    /\ \A k \in DOMAIN meta : new[k] = meta[k]
                    /\ \A k \in (DOMAIN old) \ (DOMAIN meta) : new[k] = old[k]

\* C21 witness: a snapshot has a meta with the entries m and n; UpdateMeta
\* of its version with the one entry m = 1 succeeds and leaves the meta with
\* m = 1 and the old n; on another snapshot, without meta, it leaves m = 1.
C21_Witness ==
    \E key \in Keys :
        \E loc \in DOMAIN MetasOf(Store, key), bare \in DOMAIN SnapshotsOf(Store, key) :
            /\ readProperties(MetasOf(Store, key), loc) = [m |-> "2", n |-> "3"]
            /\ UpdateMeta(Store, key, loc[2], [m |-> "1"], clock).err = NoErr
            /\ readProperties(MetasOf(UpdateMeta(Store, key, loc[2], [m |-> "1"], clock).s, key), loc)
                   = [m |-> "1", n |-> "3"]
            /\ bare \notin DOMAIN MetasOf(Store, key)
            /\ readProperties(MetasOf(UpdateMeta(Store, key, bare[2], [m |-> "1"], clock).s, key), bare)
                   = [m |-> "1"]

\* The errors that say a version was not found: the errors.New of
\* GetByVersion and the wrapped os.ErrNotExist of SetMeta and UpdateMeta.
\* A wrapped *PathError is an I/O error.
IsVersionNotFound(err) == err \in { "VersionNotFound", errorWrap("ErrNotExist") }

\* Versions other than head that name no snapshot of the key.
MissingVersions(s, key) ==
    { FormatInt(t) : t \in TimestampInputs \cup { 7 } } \ SnapshotNames(s, key)

\* C22 (as claimed): on a valid key, with or without a history directory,
\* GetByVersion, SetMeta and UpdateMeta of a version other than head that
\* names no snapshot of the key fail with a version-not-found error and
\* leave the store as it is.
C22_MissingVersionNotFound ==
    \A key \in ValidKeys, meta \in MetaInputs :
        \A version \in MissingVersions(Store, key) :
            /\ IsVersionNotFound(GetByVersion(Store, key, version).err)
            /\ IsVersionNotFound(SetMeta(Store, key, version, meta, clock).err)
            /\ SetMeta(Store, key, version, meta, clock).s = Store
            /\ IsVersionNotFound(UpdateMeta(Store, key, version, meta, clock).err)
            /\ UpdateMeta(Store, key, version, meta, clock).s = Store

\* ------------------------------------------------------------------------
\* CachedFileKVStore
\*
\* The operations take and give the store on disk and the cache map,
\* which has the key strings of the calls as its keys.
\* ------------------------------------------------------------------------

CachedResult(s, c, ret, err) == [s |-> s, cache |-> c, ret |-> ret, err |-> err]

\* Get: a cache hit returns the entry; a miss delegates and, when the store
\* returns a value, keeps it in the cache.
CachedGet(s, c, key) ==
    IF key \in DOMAIN c THEN CachedResult(s, c, c[key], NoErr)
    ELSE LET r == Get(s, key)
         IN  IF r.err # NoErr THEN CachedResult(s, c, "", r.err)
             ELSE CachedResult(s, MapPut(c, key, r.ret), r.ret, NoErr)

\* SetWithTimestamp: delegates, and puts the value in the cache when the
\* version returned is not empty.
CachedSetWithTimestamp(s, c, key, value, timestamp) ==
    LET r == SetWithTimestamp(s, key, value, timestamp)
    IN  IF r.err # NoErr THEN CachedResult(r.s, c, << >>, r.err)
        ELSE IF r.ret # << >> THEN CachedResult(r.s, MapPut(c, key, value), r.ret, NoErr)
        ELSE CachedResult(r.s, c, r.ret, NoErr)

CachedSet(s, c, key, value, now) == CachedSetWithTimestamp(s, c, key, value, now)

\* Delete: delegates, and removes the entry of the key when the store
\* returns without error.
CachedDelete(s, c, key, removeHistories) ==
    LET r == Delete(s, key, removeHistories)
    IN  IF r.err # NoErr THEN CachedResult(r.s, c, << >>, r.err)
        ELSE CachedResult(r.s, MapDel(c, {key}), << >>, NoErr)

\* Exists: true on a cache hit, else what the store says.
CachedExists(s, c, key) ==
    IF key \in DOMAIN c THEN CachedResult(s, c, TRUE, NoErr)
    ELSE LET r == Exists(s, key)
         IN  CachedResult(s, c, r.ret, r.err)

\* A call through the CachedFileKVStore leaves the store and the cache of
\* its result.
BecomesCached(r) ==
    /\ calls < MaxCalls
    /\ calls' = calls + 1
    /\ files' = r.s.files
    /\ dirs' = r.s.dirs
    /\ hist' = r.s.hist
    /\ cache' = r.cache
    /\ UNCHANGED << clock, pc, import, walk >>

DoCachedGet ==
    \E key \in ValidKeys :
        BecomesCached(CachedGet(Store, cache, key))

DoCachedSet ==
    \E key \in ValidKeys, value \in Values :
        BecomesCached(CachedSet(Store, cache, key, value, clock))

DoCachedSetWithTimestamp ==
    \E key \in ValidKeys, value \in Values, ts \in Timestamps :
        BecomesCached(CachedSetWithTimestamp(Store, cache, key, value, ts))

DoCachedDelete ==
    \E key \in ValidKeys, removeHistories \in BOOLEAN :
        BecomesCached(CachedDelete(Store, cache, key, removeHistories))

\* The calls of one CachedFileKVStore; the operations it only hands on to
\* the store leave the cache alone.
NextCached ==
    \/ Tick
    \/ DoCachedGet
    \/ DoCachedSet
    \/ DoCachedSetWithTimestamp
    \/ DoCachedDelete
    \/ DoSetMeta
    \/ DoCleanupHistoriesByCount
    \/ DoFsck

SpecCached == Init /\ [][NextCached]_vars

\* C23 (as claimed): in every state reached by calls that all go through
\* one CachedFileKVStore, every entry of the cache is the live value of its
\* key on disk, and Get and Exists through the cache return, for every key,
\* what the store returns for it.
C23_CacheRefinesStore ==
    /\ \A key \in DOMAIN cache :
           /\ HasLiveValue(Store, key)
           /\ cache[key] = Store.files[keyToPath(key)]
    /\ \A key \in ValidKeys :
           /\ CachedGet(Store, cache, key).ret = Get(Store, key).ret
           /\ CachedGet(Store, cache, key).err = Get(Store, key).err
           /\ CachedExists(Store, cache, key).ret = Exists(Store, key).ret
           /\ CachedExists(Store, cache, key).err = Exists(Store, key).err

\* ---------------------------------------------------------------------
\* CachedFileKVStore called from several goroutines.  The struct holds the
\* store and the map and nothing else: no method takes a lock, so a thread
\* enters a map access whenever its code gets there.  An access to the map
\* takes time: a thread is inside it from the step that begins it to the
\* step that ends it.

Threads == { 1, 2 }

ThreadOps == { "Get", "Set", "Delete", "Exists" }

ThreadKeys == { KeyAB, KeyABC }

Idle == [at |-> "idle", op |-> "", key |-> "", value |-> ""]

\* Inside `c.cache[key]` of Get or Exists.
Reading(t) == pc[t].at = "reading"

\* Inside `c.cache[key] = value` or `delete(c.cache, key)`.
Writing(t) == pc[t].at = "writing"

InMapAccess(t) == Reading(t) \/ Writing(t)

\* Two accesses of the map overlap and one of them is a write: a data race.
MapRace ==
    \E t \in Threads, u \in Threads :
        t # u /\ Writing(t) /\ InMapAccess(u)

InitThreads ==
    /\ files = EmptyMap
    /\ dirs = {}
    /\ hist = EmptyMap
    /\ clock = 1
    /\ calls = 0
    /\ cache = EmptyMap
    /\ pc = [t \in Threads |-> Idle]
    /\ import = NoImport
    /\ walk = NoWalk

\* A goroutine calls Get, Set, Delete or Exists.  Get and Exists begin with
\* the read of the map; Set and Delete begin with the call of the store.
ThreadCall ==
    \E t \in Threads, op \in ThreadOps, key \in ThreadKeys :
      \E value \in (IF op = "Set" THEN Values ELSE { "" }) :
        /\ pc[t].at = "idle"
        /\ calls < MaxCalls
        /\ calls' = calls + 1
        /\ pc' = [pc EXCEPT ![t] =
                    [at |-> IF op \in { "Get", "Exists" } THEN "reading" ELSE "calling",
                     op |-> op, key |-> key, value |-> value]]
        /\ UNCHANGED << files, dirs, hist, clock, cache, import, walk >>

\* The read of the map ends: a hit returns, a miss goes on to the store.
\* A read that overlaps a write of another thread is a data race, and may
\* see the entry or miss it.
ThreadEndRead ==
    \E t \in Threads, ok \in BOOLEAN :
        /\ Reading(t)
        /\ \/ ok = (pc[t].key \in DOMAIN cache)
           \/ \E u \in Threads : u # t /\ Writing(u)
        /\ pc' = [pc EXCEPT ![t] = IF ok THEN Idle ELSE [@ EXCEPT !.at = "calling"]]
        /\ UNCHANGED << files, dirs, hist, clock, calls, cache, import, walk >>

\* What the store answers to the call of the thread.
ThreadStoreResult(t) ==
    CASE pc[t].op = "Get" -> Get(Store, pc[t].key)
      [] pc[t].op = "Exists" -> Exists(Store, pc[t].key)
      [] pc[t].op = "Set" -> SetWithTimestamp(Store, pc[t].key, pc[t].value, clock)
      [] pc[t].op = "Delete" -> Delete(Store, pc[t].key, FALSE)

\* The call of the store.  Get goes on to write the value it read into the
\* map, Set its value when the store made a version, Delete removes the
\* entry; an error, an unchanged value and Exists return at once.
ThreadStoreCall ==
    \E t \in Threads :
        /\ pc[t].at = "calling"
        /\ LET r == ThreadStoreResult(t)
               writes ==
                   /\ r.err = NoErr
                   /\ pc[t].op # "Exists"
                   /\ pc[t].op = "Set" => r.ret # << >>
           IN  /\ files' = r.s.files
               /\ dirs' = r.s.dirs
               /\ hist' = r.s.hist
               /\ pc' = [pc EXCEPT ![t] =
                           IF writes
                           THEN [@ EXCEPT !.at = "writing",
                                          !.value = IF pc[t].op = "Get" THEN r.ret ELSE @]
                           ELSE Idle]
        /\ UNCHANGED << clock, calls, cache, import, walk >>

\* The write of the map ends.
ThreadEndWrite ==
    \E t \in Threads :
        /\ Writing(t)
        /\ cache' = IF pc[t].op = "Delete"
                    THEN MapDel(cache, { pc[t].key })
                    ELSE MapPut(cache, pc[t].key, pc[t].value)
        /\ pc' = [pc EXCEPT ![t] = Idle]
        /\ UNCHANGED << files, dirs, hist, clock, calls, import, walk >>

\* The Go runtime may detect a racing map access and end the process
\* ("fatal error: concurrent map read and map write"): no thread goes on.
ThreadFatal ==
    /\ MapRace
    /\ pc' = [t \in Threads |-> [pc[t] EXCEPT !.at = "fatal"]]
    /\ UNCHANGED << files, dirs, hist, clock, calls, cache, import, walk >>

NextThreads ==
    \/ Tick
    \/ ThreadCall
    \/ ThreadEndRead
    \/ ThreadStoreCall
    \/ ThreadEndWrite
    \/ ThreadFatal

SpecThreads == InitThreads /\ [][NextThreads]_vars

\* C24 (as claimed): when Get, Set, Delete and Exists of one
\* CachedFileKVStore run concurrently, no two threads are inside a read or
\* a write of the cache map at the same time.
C24_CacheMapLocked ==
    \A t \in Threads, u \in Threads :
        (InMapAccess(t) /\ InMapAccess(u)) => t = u

\* ---------------------------------------------------------------------
\* Keys that break the key syntax

\* The empty key, a leading '/', a '\', and parts that start with '.' or
\* 'p_' or end with '.h', as the first part and as a later one.
InvalidKeys ==
    { << >>,
      << "/", "a", "b" >>,
      << "a", "\\", "b" >>,
      << ".", "a" >>,
      << "a", "b", "/", ".", "c" >>,
      << "p", "_", "a" >>,
      << "a", "b", "/", "p", "_", "1" >>,
      << "a", "b", ".", "h" >>,
      << "a", "b", ".", "h", "/", "c" >> }

\* The revisions asked for with such a key: head in both spellings, the
\* name of a snapshot that the key "ab" may have, and one nothing has.
RevisionInputs ==
    { HeadVersion, << "H", "E", "A", "D" >>, << "7" >> }
      \cup { FormatInt(t) : t \in TimestampInputs }

RejectsKey(s, r) == r.err = "InvalidKey" /\ r.s = s

\* Every operation other than GetNextVersion rejects the key, whatever its
\* other arguments are.
KeyedCallsReject(s, key) ==
    /\ RejectsKey(s, Get(s, key))
    /\ RejectsKey(s, Exists(s, key))
    /\ RejectsKey(s, GetHistories(s, key))
    /\ RejectsKey(s, GetLastVersion(s, key))
    /\ \A v \in RevisionInputs :
           /\ RejectsKey(s, GetByVersion(s, key, v))
           /\ RejectsKey(s, GetPrevVersion(s, key, v))
           /\ \A m \in MetaInputs :
                  /\ RejectsKey(s, SetMeta(s, key, v, m, clock))
                  /\ RejectsKey(s, UpdateMeta(s, key, v, m, clock))
    /\ \A value \in Values :
           /\ RejectsKey(s, Set(s, key, value, clock))
           /\ \A ts \in TimestampInputs :
                  RejectsKey(s, SetWithTimestamp(s, key, value, ts))
    /\ \A rh \in BOOLEAN : RejectsKey(s, Delete(s, key, rh))
    /\ \A maxAge \in MaxAges :
           RejectsKey(s, CleanupHistoriesByTime(s, key, maxAge, clock))
    /\ \A maxCount \in MaxCounts :
           RejectsKey(s, CleanupHistoriesByCount(s, key, maxCount))

\* C25 (as claimed): every operation that takes a key, called with a key
\* that breaks the key syntax, returns InvalidKey for every choice of its
\* other arguments, head included, and leaves the store unchanged.
C25_InvalidKeyEverywhere ==
    \A key \in InvalidKeys :
        /\ KeyedCallsReject(Store, key)
        /\ \A v \in RevisionInputs : RejectsKey(Store, GetNextVersion(Store, key, v))

\* ---------------------------------------------------------------------
\* ImportGitRepo on the store

MaxCommits == 3

\* The paths of the repository: "ab" is a file in some commits and the
\* directory of "ab/c" in others, ".a" is a file name that is no key.
PathDotA == << ".", "a" >>

ImportPaths == { KeyAB, KeyABC, KeyABx, PathDotA }

\* The trees of the commits: "ab" has one of two contents, the other paths
\* one; no tree has "ab" both as a file and as a directory.
ImportTrees ==
    { t \in UNION { [P -> Values] : P \in SUBSET ImportPaths } :
        /\ ~({ KeyAB, KeyABC } \subseteq DOMAIN t)
        /\ \A filePath \in (DOMAIN t) \ { KeyAB } : t[filePath] = "x" }

\* Committer.When.UnixNano() of the commits: two commits may have the same.
CommitTimes == { 9, 10 }

\* No filter, and one that rejects "abx".
ImportFilters == { NilFilter, [isNil |-> FALSE, accepts |-> ImportPaths \ { KeyABx }] }

\* Before the import the store may have been written once by another of
\* its callers.
SetBeforeImport ==
    /\ ~import.begun
    /\ calls = 0
    /\ \E value \in Values : Becomes(Set(Store, KeyAB, value, clock))

\* ImportGitRepo is called: the repository is opened, the commits are
\* collected and put oldest first.
ImportBegin ==
    /\ ~import.begun
    /\ \E filter \in ImportFilters :
           import' = [NoImport EXCEPT !.begun = TRUE, !.filter = filter, !.before = Store]
    /\ UNCHANGED << files, dirs, hist, clock, calls, cache, pc, walk >>

\* What a commit with this tree adds to the account of the paths.
Account(field, tree) ==
    [filePath \in (DOMAIN import.contained) \cup (DOMAIN tree) |->
        LET seen == filePath \in DOMAIN import.contained
            here == filePath \in DOMAIN tree
            changed == here /\ (~seen \/ import.newest[filePath] # tree[filePath])
        IN  CASE field = "contained" ->
                     (IF seen THEN import.contained[filePath] ELSE 0) + (IF here THEN 1 ELSE 0)
              [] field = "changes" ->
                     (IF seen THEN import.changes[filePath] ELSE 0) + (IF changed THEN 1 ELSE 0)
              [] field = "newest" ->
                     IF here THEN tree[filePath] ELSE import.newest[filePath]]

\* The next commit of the repository is imported.
ImportCommit ==
    /\ import.begun
    /\ import.idx < MaxCommits
    /\ \E tree \in ImportTrees, when \in CommitTimes :
           /\ when >= import.lastWhen
           /\ LET c == [Hash |-> import.idx + 1, When |-> when, Tree |-> tree]
                  st == importCommit([s |-> Store,
                                      lastContent |-> import.lastContent,
                                      ImportedFiles |-> import.ImportedFiles,
                                      Errors |-> import.Errors],
                                     import.filter, c)
              IN  /\ files' = st.s.files
                  /\ dirs' = st.s.dirs
                  /\ hist' = st.s.hist
                  /\ import' = [import EXCEPT !.idx = @ + 1,
                                              !.lastWhen = when,
                                              !.lastContent = st.lastContent,
                                              !.ImportedFiles = st.ImportedFiles,
                                              !.Errors = st.Errors,
                                              !.contained = Account("contained", tree),
                                              !.changes = Account("changes", tree),
                                              !.newest = Account("newest", tree)]
    /\ UNCHANGED << clock, calls, cache, pc, walk >>

NextImport ==
    \/ SetBeforeImport
    \/ ImportBegin
    \/ ImportCommit

SpecImport == Init /\ [][NextImport]_vars

\* The paths the filter given to the import rejects, and those it accepts.
RejectedPaths ==
    IF import.filter.isNil THEN {} ELSE ImportPaths \ import.filter.accepts

AcceptedPaths == ImportPaths \ RejectedPaths

\* The snapshots the import has made of a path so far.
SnapshotsCreated(filePath) ==
    Cardinality(DOMAIN SnapshotsOf(Store, filePath))
      - Cardinality(DOMAIN SnapshotsOf(import.before, filePath))

ChangesOf(filePath) ==
    IF filePath \in DOMAIN import.changes THEN import.changes[filePath] ELSE 0

\* Nothing of the path differs from what the import began on: not its live
\* file, not its history.
Untouched(filePath) ==
    /\ StatLive(Store, keyToPath(filePath)) = StatLive(import.before, keyToPath(filePath))
    /\ HasLiveValue(Store, filePath) =>
           Store.files[keyToPath(filePath)] = import.before.files[keyToPath(filePath)]
    /\ HistoryAt(Store, keyToHistoryPath(filePath))
         = HistoryAt(import.before, keyToHistoryPath(filePath))

HasImportError(filePath) ==
    \E i \in 1..Len(import.Errors) : import.Errors[i].file = filePath

ImportedEntries(filePath) ==
    IF filePath \in DOMAIN import.ImportedFiles
    THEN import.ImportedFiles[filePath] ELSE << >>

\* C27 (as claimed): the result of the import has, of every imported path,
\* one entry for every commit whose tree has the path, while the snapshots
\* made of the path are as many as its content changes.
C27_ImportedEntryPerCommit ==
    import.begun =>
        \A filePath \in DOMAIN import.ImportedFiles :
            /\ Len(ImportedEntries(filePath)) = import.contained[filePath]
            /\ SnapshotsCreated(filePath) = ChangesOf(filePath)

\* ---------------------------------------------------------------------
\* Snapshots are immutable

\* Every snapshot of every key in s, name and bytes, is in t.
KeepsSnapshots(s, t) ==
    \A key \in Keys : SnapshotContents(s, key) \subseteq SnapshotContents(t, key)

\* C28: no Set, SetWithTimestamp, SetMeta or UpdateMeta, whatever it
\* returns, changes the bytes of a snapshot or removes one: every pair of
\* version name and bytes that a key has before the call it has after it,
\* also when the timestamp is the name of a snapshot that is there.
C28_SnapshotsImmutable ==
    \A key \in ValidKeys :
        /\ \A value \in Values :
               /\ KeepsSnapshots(Store, Set(Store, key, value, clock).s)
               /\ \A ts \in TimestampInputs :
                      KeepsSnapshots(Store, SetWithTimestamp(Store, key, value, ts).s)
        /\ \A version \in VersionInputs(Store, key), meta \in MetaInputs :
               /\ KeepsSnapshots(Store, SetMeta(Store, key, version, meta, clock).s)
               /\ KeepsSnapshots(Store, UpdateMeta(Store, key, version, meta, clock).s)

\* C28 witness: a key has a snapshot named by a timestamp; SetWithTimestamp
\* with that timestamp and other bytes succeeds and makes a snapshot of
\* another name, and the one that was there has its bytes.
C28_Witness ==
    \E key \in Keys, ts \in TimestampInputs, value \in Values :
        LET r == SetWithTimestamp(Store, key, value, ts)
            loc == << DefaultLoc, FormatInt(ts) >>
        IN  /\ loc \in DOMAIN SnapshotsOf(Store, key)
            /\ SnapshotsOf(Store, key)[loc] # value
            /\ r.err = NoErr
            /\ r.ret # << >>
            /\ SnapshotsOf(r.s, key)[loc] = SnapshotsOf(Store, key)[loc]
            /\ Cardinality(DOMAIN SnapshotsOf(r.s, key))
                 = Cardinality(DOMAIN SnapshotsOf(Store, key)) + 1

\* ---------------------------------------------------------------------
\* Neighbours in the history

\* The place of a version in the history of a key sorted ascending: one
\* more than the number of versions before it.
RankOf(s, key, v) ==
    Cardinality({ u \in SnapshotNames(s, key) : VersionBefore(u, v) }) + 1

\* C29 (as claimed): with h1..hn the versions of the key in ascending
\* order, GetPrevVersion of hi returns h(i-1) and is not-found for h1,
\* GetNextVersion of hi returns h(i+1) and is not-found for hn,
\* GetPrevVersion of head returns h(n-1) and is not-found when n < 2,
\* GetNextVersion of head fails, a revision that is not in the history is
\* not-found, and GetNextVersion of what GetPrevVersion of r returns is r.
C29_PrevNextAreNeighbours ==
    \A key \in ValidKeys :
        LET V == SnapshotNames(Store, key)
            n == Cardinality(V)
            prevHead == GetPrevVersion(Store, key, HeadVersion)
        IN  /\ \A v \in V :
                   LET i == RankOf(Store, key, v)
                       prev == GetPrevVersion(Store, key, v)
                       next == GetNextVersion(Store, key, v)
                   IN  /\ IF i > 1
                          THEN /\ prev.err = NoErr
                               /\ RankOf(Store, key, prev.ret.Version) = i - 1
                               /\ GetNextVersion(Store, key, prev.ret.Version).err = NoErr
                               /\ GetNextVersion(Store, key, prev.ret.Version).ret.Version = v
                          ELSE IsVersionNotFound(prev.err)
                       /\ IF i < n
                          THEN /\ next.err = NoErr
                               /\ RankOf(Store, key, next.ret.Version) = i + 1
                          ELSE IsVersionNotFound(next.err)
            /\ IF n < 2 THEN IsVersionNotFound(prevHead.err)
               ELSE /\ prevHead.err = NoErr
                    /\ RankOf(Store, key, prevHead.ret.Version) = n - 1
            /\ GetNextVersion(Store, key, HeadVersion).err # NoErr
            /\ \A v \in MissingVersions(Store, key) :
                   /\ IsVersionNotFound(GetPrevVersion(Store, key, v).err)
                   /\ IsVersionNotFound(GetNextVersion(Store, key, v).err)

\* ---------------------------------------------------------------------
\* A SetWithTimestamp that fails between the live file and the snapshot

FailurePoints == { "MkdirAll", "WriteFile" }

DoSetWithTimestampFailing ==
    \E key \in Keys, value \in Values, failsAt \in FailurePoints :
        Becomes(SetWithTimestampFailing(Store, key, value, clock, failsAt))

NextFailing ==
    \/ Tick
    \/ DoSet
    \/ DoSetWithTimestampFailing
    \/ DoDelete
    \/ DoFsck

SpecFailing == Init /\ [][NextFailing]_vars

\* C30 (as claimed): when a SetWithTimestamp fails after it wrote the live
\* file and before it wrote the snapshot, the Fsck that comes next returns
\* without error and leaves the key with a snapshot whose bytes are its
\* live value, whether the key had snapshots before or not.
C30_FsckRepairsFailedSet ==
    \A key \in Keys, value \in Values, failsAt \in FailurePoints :
        LET failed == SetWithTimestampFailing(Store, key, value, clock, failsAt)
            r == Fsck(failed.s, clock)
        IN  failed.err = errorWrap("EIO") =>
                /\ r.err = NoErr
                /\ Get(r.s, key).err = NoErr
                /\ Get(r.s, key).ret = value
                /\ \E loc \in DOMAIN SnapshotsOf(r.s, key) :
                       SnapshotsOf(r.s, key)[loc] = value

\* ---------------------------------------------------------------------
\* CleanupHistoriesByCount entry by entry, under a context that the caller
\* may cancel.  No line of the store reads the context: the loop over
\* toRemove goes from one entry to the next whatever the context says.

\* CleanupHistoriesByCount is called: the history is read and sorted, the
\* entries to remove are taken, the loop begins.
CleanupBegin ==
    /\ walk.at = "idle"
    /\ calls < MaxCalls
    /\ calls' = calls + 1
    /\ \E key \in Keys, maxCount \in MaxCounts :
           LET hp == keyToHistoryPath(key)
               allHistories == SortVersions(foreachHistories(Store, hp))
           IN  walk' = [at |-> "removing", hp |-> hp,
                        entries |-> toRemove(allHistories, maxCount),
                        i |-> 1, cancelled |-> FALSE]
    /\ UNCHANGED << files, dirs, hist, clock, cache, pc, import >>

\* One turn of `for _, history := range toRemove`: the snapshot file and,
\* if the traversal saw one, its meta file are removed.
CleanupStep ==
    /\ walk.at = "removing"
    /\ walk.i <= Len(walk.entries)
    /\ LET s1 == removeEntries(Store, walk.hp, << walk.entries[walk.i] >>)
       IN  /\ files' = s1.files
           /\ dirs' = s1.dirs
           /\ hist' = s1.hist
    /\ walk' = [walk EXCEPT !.i = @ + 1]
    /\ UNCHANGED << clock, calls, cache, pc, import >>

\* The loop is over and the call returns.
CleanupReturn ==
    /\ walk.at = "removing"
    /\ walk.i > Len(walk.entries)
    /\ walk' = NoWalk
    /\ UNCHANGED << files, dirs, hist, clock, calls, cache, pc, import >>

\* The caller cancels the context of the call that is under way.
CancelContext ==
    /\ walk.at = "removing"
    /\ ~walk.cancelled
    /\ walk' = [walk EXCEPT !.cancelled = TRUE]
    /\ UNCHANGED << files, dirs, hist, clock, calls, cache, pc, import >>

NextCancel ==
    \/ Tick
    \/ DoSet
    \/ DoSetMeta
    \/ CleanupBegin
    \/ CleanupStep
    \/ CleanupReturn
    \/ CancelContext

SpecCancel == Init /\ [][NextCancel]_vars

\* C31 (as claimed): once the context is cancelled while a cleanup goes
\* through its entries, the operation does not process the next entry: no
\* step takes the loop to another entry.
C31_CancelStopsTraversal ==
    [][(walk.at = "removing" /\ walk.cancelled) =>
           ~(walk'.at = "removing" /\ walk'.i > walk.i)]_vars

\* ------------------------------------------------------------------------
\* C32
\* ------------------------------------------------------------------------

HistoryOrNone(s, hp) == IF hp \in DOMAIN s.hist THEN s.hist[hp] ELSE << >>

\* C32: with the ignore-warning policy set, Fsck goes past the error of one
\* key in each of its three passes and still treats every other key: with
\* one history directory that cannot be read, the history of every other
\* key is after Fsck what it is after Fsck on a file system without the
\* fault, and Fsck returns an error.
C32_IgnoreWarningContinues ==
    \A hp \in DOMAIN hist :
        LET faulty == FsckOn(Store, clock, TRUE, {hp})
            sound == FsckOn(Store, clock, TRUE, {})
        IN  faulty.err # NoErr =>
                \A other \in (DOMAIN hist \cup DOMAIN sound.s.hist \cup DOMAIN faulty.s.hist) \ {hp} :
                    HistoryOrNone(faulty.s, other) = HistoryOrNone(sound.s, other)

\* ------------------------------------------------------------------------
\* C33: Set with a clock that goes forward between two calls of Set
\* ------------------------------------------------------------------------

InitClocked ==
    /\ files = EmptyMap
    /\ dirs = {}
    /\ hist = EmptyMap
    /\ clock = InitClock - 1
    /\ calls = 0
    /\ cache = EmptyMap
    /\ pc = EmptyMap
    /\ import = NoImport
    /\ walk = NoWalk

\* Set reads time.Now().UnixMilli(): a reading later than every reading
\* taken before.
DoSetLater ==
    \E key \in Keys, value \in Values, now \in (clock + 1)..MaxClock :
        LET r == Set(Store, key, value, now)
        IN  /\ calls < MaxCalls
            /\ calls' = calls + 1
            /\ files' = r.s.files
            /\ dirs' = r.s.dirs
            /\ hist' = r.s.hist
            /\ clock' = now
            /\ UNCHANGED << cache, pc, import, walk >>

NextClocked ==
    \/ Tick
    \/ DoSetLater
    \/ DoSetMeta
    \/ DoUpdateMeta
    \/ DoDelete
    \/ DoCleanupHistoriesByTime
    \/ DoCleanupHistoriesByCount
    \/ DoFsck

SpecClocked == InitClocked /\ [][NextClocked]_vars

\* C33: when Set is called with a clock that goes forward, then for every
\* key with a live value and at least one snapshot, the snapshot that
\* GetLastVersion names holds the live value.
C33_NewestSnapshotIsLive ==
    \A key \in Keys :
        (Get(Store, key).err = NoErr /\ SnapshotCount(Store, key) > 0) =>
            LET last == GetLastVersion(Store, key)
            IN  /\ last.err = NoErr
                /\ GetByVersion(Store, key, last.ret.Name).err = NoErr
                /\ GetByVersion(Store, key, last.ret.Name).ret = Get(Store, key).ret

\* ------------------------------------------------------------------------
\* C34: SetWithTimestamp with the timestamp of a snapshot of a long history
\* ------------------------------------------------------------------------

\* The timestamps of the oldest snapshot of the long history, of the first
\* snapshot that stays out of the first page, and one that is not in it.
PagedTimestamps == { PagedBase + 1, PagedBase + maxHistoryCount + 1, InitClock }

DoSetWithTimestampPaged ==
    \E value \in Values, ts \in PagedTimestamps :
        Becomes(SetWithTimestamp(Store, KeyAB, value, ts))

NextRepaged ==
    \/ Tick
    \/ DoSetWithTimestampPaged
    \/ DoSetMetaSampled
    \/ DoCleanupHistoriesByCount
    \/ DoFsck

SpecRepaged == InitPaged /\ [][NextRepaged]_vars

\* The version names of the snapshots of a history, of the default location
\* and of the pages.
VersionNamesOf(h) == { loc[2] : loc \in DOMAIN h.files }

\* C34: no two snapshots of a key have the same version name, whether they
\* are in the default location or in a page; so also after Fsck has moved
\* the snapshot named ts into a page and SetWithTimestamp is called with ts
\* and another value.
C34_VersionNamesUnique ==
    \A hp \in DOMAIN hist :
        Cardinality(VersionNamesOf(hist[hp])) = Cardinality(DOMAIN hist[hp].files)

\* ------------------------------------------------------------------------
\* C35
\* ------------------------------------------------------------------------

\* C35: GetLastVersion of a valid key succeeds whenever the key has at
\* least one snapshot, and it reports that there is no version only when
\* the key has none; a snapshot of timestamp 0 and a snapshot whose name has
\* a suffix _n count as snapshots.
C35_LastVersionFound ==
    \A key \in Keys :
        LET last == GetLastVersion(Store, key)
        IN  /\ SnapshotCount(Store, key) > 0 => last.err = NoErr
            /\ last.err # NoErr => SnapshotCount(Store, key) = 0

\* ------------------------------------------------------------------------
\* C36
\* ------------------------------------------------------------------------

\* A live key is at the path, above it or below it.
KeyAbove(s, path) == \E a \in Ancestors(path) : a \in DOMAIN s.files

KeyBelow(s, path) == \E q \in DOMAIN s.files : path \in Ancestors(q)

\* C36: no live key is a proper path prefix of another live key; a Set of a
\* key that has a live key above it or below it fails and leaves the store
\* as it is, live values and histories.
C36_NoKeyIsPrefixOfKey ==
    /\ \A p \in DOMAIN files : ~KeyAbove(Store, p)
    /\ \A key \in ValidKeys, value \in Values, ts \in Timestamps :
           (KeyAbove(Store, keyToPath(key)) \/ KeyBelow(Store, keyToPath(key))) =>
               LET r == SetWithTimestamp(Store, key, value, ts)
               IN  r.err # NoErr /\ r.s = Store

\* "ab/c" is a live key and a Set of "ab" has been refused, or "ab" is and a
\* Set of "ab/c" has been.
C36_Witness ==
    \/ /\ keyToPath(KeyABC) \in DOMAIN files
       /\ SetWithTimestamp(Store, KeyAB, "x", InitClock).err = errorWrap("EISDIR")
    \/ /\ keyToPath(KeyAB) \in DOMAIN files
       /\ SetWithTimestamp(Store, KeyABC, "x", InitClock).err = errorWrap("ENOTDIR")

\* ------------------------------------------------------------------------
\* C37
\* ------------------------------------------------------------------------

\* C37: Delete of a key fails with the error of a key that has children
\* only while a live key is below the key; when no live key is below it
\* (and none is above it), Delete succeeds and Set succeeds.
C37_HasChildrenOnlyWithChildren ==
    \A key \in Keys :
        /\ \A removeHistories \in BOOLEAN :
               Delete(Store, key, removeHistories).err = "HasChildren" =>
                   KeyBelow(Store, keyToPath(key))
        /\ (~KeyBelow(Store, keyToPath(key)) /\ ~KeyAbove(Store, keyToPath(key))) =>
               /\ \A removeHistories \in BOOLEAN :
                      Delete(Store, key, removeHistories).err = NoErr
               /\ \A value \in Values :
                      Set(Store, key, value, clock).err = NoErr

\* ------------------------------------------------------------------------
\* C38
\* ------------------------------------------------------------------------

OutsidePaths ==
    { << ".", "a" >>,
      << "a", "b", ".", "h" >>,
      << "p", "_", "a" >>,
      << "a", "b", "/", ".", "a" >> }

\* Another program writes a regular file into a directory that is there.
PlaceOutside ==
    \E path \in OutsidePaths :
        /\ path \notin DOMAIN files
        /\ Parent(path) = << >> \/ Parent(path) \in dirs
        /\ files' = MapPut(files, path, "x")
        /\ UNCHANGED << dirs, hist, clock, calls, cache, pc, import, walk >>

NextOutside ==
    \/ Tick
    \/ DoSet
    \/ DoDelete
    \/ DoCleanupHistoriesByCount
    \/ DoFsck
    \/ PlaceOutside

SpecOutside == Init /\ [][NextOutside]_vars

\* The live keys: the regular files below the root whose path is a valid
\* key.
ValidLiveKeys(s) == { p \in DOMAIN s.files : validateKey(p) = NoErr }

\* C39: a skipped entry hides only itself: with regular files of skipped
\* names (a name that begins with "." or "p_" or ends with ".h") in the
\* directories of the keys, ListKeys("") returns every valid live key, and
\* after Fsck every valid live key has a snapshot.
C39_SkippedEntryHidesItself ==
    LET listed == ListKeys(Store, << >>).ret
        checked == Fsck(Store, clock)
    IN  /\ \A p \in ValidLiveKeys(Store) : \E i \in 1..Len(listed) : listed[i] = p
        /\ checked.err = NoErr =>
               \A p \in ValidLiveKeys(Store) : hasHistories(checked.s, keyToHistoryPath(p))

\* ------------------------------------------------------------------------
\* C40: two goroutines in SetWithTimestamp of one key
\* ------------------------------------------------------------------------

\* A goroutine is before its call, or in SetWithTimestamp before one of its
\* four accesses of the file system, or after its call.
NotCalled ==
    [at |-> "idle", value |-> "", timestamp |-> 0, create |-> FALSE,
     historyFile |-> << >>, ret |-> << >>]

\* The store before the two calls: empty, or with one snapshot of the key.
RaceStores ==
    { EmptyStore } \cup
    { SetWithTimestamp(EmptyStore, KeyAB, value, InitClock).s : value \in Values }

InitRace ==
    \E s \in RaceStores :
        /\ files = s.files
        /\ dirs = s.dirs
        /\ hist = s.hist
        /\ clock = InitClock
        /\ calls = 0
        /\ cache = EmptyMap
        /\ pc = [t \in Threads |-> NotCalled]
        /\ import = NoImport
        /\ walk = NoWalk

\* The goroutine calls SetWithTimestamp(KeyAB, value, timestamp).
RaceCall(t) ==
    /\ pc[t].at = "idle"
    /\ calls < MaxCalls
    /\ calls' = calls + 1
    /\ \E value \in Values, timestamp \in { InitClock, MaxClock } :
           pc' = [pc EXCEPT ![t] = [NotCalled EXCEPT !.at = "ReadFile",
                                                     !.value = value,
                                                     !.timestamp = timestamp]]
    /\ UNCHANGED << files, dirs, hist, clock, cache, import, walk >>

\* os.ReadFile(dataFile) and the comparison of the bytes.
RaceReadFile(t) ==
    /\ pc[t].at = "ReadFile"
    /\ pc' = [pc EXCEPT ![t].at = "WriteFile",
                        ![t].create = shouldCreateHistory(Store, keyToPath(KeyAB), pc[t].value)]
    /\ UNCHANGED << files, dirs, hist, clock, calls, cache, import, walk >>

\* os.WriteFile(dataFile, value); the call returns "" when the bytes were
\* the same.
RaceWriteFile(t) ==
    /\ pc[t].at = "WriteFile"
    /\ files' = WriteLive(Store, keyToPath(KeyAB), pc[t].value).files
    /\ pc' = [pc EXCEPT ![t].at = IF pc[t].create THEN "Stat" ELSE "returned"]
    /\ UNCHANGED << dirs, hist, clock, calls, cache, import, walk >>

\* os.MkdirAll(historyDir) and the loop of os.Stat that ends with a name
\* no file has.
RaceStat(t) ==
    /\ pc[t].at = "Stat"
    /\ LET hp == keyToHistoryPath(KeyAB)
           s2 == MkdirAllHistory(Store, hp)
       IN  /\ hist' = s2.hist
           /\ pc' = [pc EXCEPT ![t].at = "WriteHistory",
                               ![t].historyFile =
                                   uniqueHistoryFile(s2, hp, FormatInt(pc[t].timestamp), 0)]
    /\ UNCHANGED << files, dirs, clock, calls, cache, import, walk >>

\* os.WriteFile(historyFile, value); the call returns the timestamp.
RaceWriteHistory(t) ==
    /\ pc[t].at = "WriteHistory"
    /\ hist' = WriteSnapshot(Store, keyToHistoryPath(KeyAB),
                             << DefaultLoc, pc[t].historyFile >>, pc[t].value).hist
    /\ pc' = [pc EXCEPT ![t].at = "returned",
                        ![t].ret = setReturnValue(FormatInt(pc[t].timestamp),
                                                  pc[t].historyFile)]
    /\ UNCHANGED << files, dirs, clock, calls, cache, import, walk >>

NextRace ==
    \/ \E t \in Threads : RaceCall(t)
    \/ \E t \in Threads : RaceReadFile(t)
    \/ \E t \in Threads : RaceWriteFile(t)
    \/ \E t \in Threads : RaceStat(t)
    \/ \E t \in Threads : RaceWriteHistory(t)

SpecRace == InitRace /\ [][NextRace]_vars

\* The snapshots of the key that have the timestamp and the value of the
\* call of the goroutine.
OwnSnapshots(t) ==
    LET h == HistoryAt(Store, keyToHistoryPath(KeyAB))
    IN  { loc \in DOMAIN h.files :
            TimestampOf(loc[2]) = pc[t].timestamp /\ h.files[loc] = pc[t].value }

\* The snapshots of the key that no snapshot comes after.
NewestSnapshots ==
    LET h == HistoryAt(Store, keyToHistoryPath(KeyAB))
    IN  { loc \in DOMAIN h.files :
            \A other \in DOMAIN h.files : ~VersionBefore(loc[2], other[2]) }

\* C40: when two calls of SetWithTimestamp of one key with different
\* values have run, one beside the other, every call that returned a
\* version has its snapshot with its value, and the live value is the value
\* of the newest snapshot.
C40_NoLockNeeded ==
    (/\ \A t \in Threads : pc[t].at = "returned"
     /\ pc[1].value # pc[2].value) =>
        /\ \A t \in Threads : pc[t].ret # << >> => OwnSnapshots(t) # {}
        /\ \A loc \in NewestSnapshots :
               HistoryAt(Store, keyToHistoryPath(KeyAB)).files[loc] = files[keyToPath(KeyAB)]

====
